---- MODULE Spec2Model ----
(***************************************************************************)
(* Gobol: the bytecode compiler (Bytecode/Compiler.cpp) and the stack      *)
(* virtual machine (Bytecode/VirtualMachine.cpp).                          *)
(*                                                                         *)
(* A behaviour is one call of VirtualMachine::run on the module that       *)
(* Compiler::compile returns for one program.  Init compiles the program,  *)
(* every other step is one iteration of the loop of run (fetch, pc++,      *)
(* execute), and the last step is the code of run after the loop.          *)
(*                                                                         *)
(* Addresses, constant-pool indices and array indices are 0-based as in    *)
(* the C++ code; TLA+ sequences are 1-based, so code[pc + 1] is the        *)
(* instruction at address pc.                                              *)
(***************************************************************************)
EXTENDS Integers, Sequences, FiniteSets, TLC

VARIABLES
    program,      \* the AST handed to Compiler::compile
    code,         \* BytecodeModule::code
    constants,    \* BytecodeModule::constants
    pc,           \* VirtualMachine::pc
    running,      \* VirtualMachine::running
    evalStack,    \* VirtualMachine::evalStack (top is the last element)
    callStack,    \* VirtualMachine::callStack (top is the last element)
    out,          \* characters written to std::cout
    errs,         \* messages written to std::cerr
    status,       \* where run is: "loop", "returned", or "thrown"
    steps,        \* number of instructions executed
    hist,         \* the instruction executed last and the state it started in
    compiler,     \* a Compiler between two calls of addConstant
    returned,     \* the calls of addConstant so far: the value, the index returned
    sa,           \* the SemanticAnalyzer: its Environment and its other members
    todo,         \* what analyze has still to do, the next thing first
    visited,      \* the thing analyze did last and the analyzer it started from
    verdict,      \* "pending" until analyze returns, then "passed" or "failed"; of a
                  \* call of the Environment alone, what the call returned
    builder,      \* the ASTBuilder: its token buffer, its position, its error, and the
                  \* statements of the Program that build is putting together
    interpreter,  \* the Interpreter object
    executed,     \* "no" until Interpreter::execute returns, then what it returned
    mainFrame     \* main: its argc, the tokens of its source file, where it is and
                  \* what it returned

vars == <<program, code, constants, pc, running, evalStack, callStack, out, errs,
          status, steps, hist, compiler, returned, sa, todo, visited, verdict, builder,
          interpreter, executed, mainFrame>>

\* what a run of the virtual machine changes
vmVars == <<code, constants, pc, running, evalStack, callStack, out, errs, status,
            steps, hist>>

\* what a sequence of addConstant calls changes
poolVars == <<compiler, returned>>

\* what a call of SemanticAnalyzer::analyze changes
analyzerVars == <<sa, todo, visited, verdict>>

\* what a call of ASTBuilder::build changes
parserVars == <<builder>>

\* what a call of Interpreter::execute changes
interpreterVars == <<interpreter, executed>>

\* what main changes besides
mainVars == <<mainFrame>>

----------------------------------------------------------------------------
(* Bounds of the model *)

\* run is followed for at most MaxSteps instructions
MaxSteps == 96

\* a double is modelled as an integer number of 1/FloatDen
FloatDen == 2

\* array sizes, literals and range ends of the programs range over 0..MaxLit
MaxLit == 2

\* the longest raw format string
MaxFmt == 4

\* the longest sequence of addConstant calls
MaxCalls == 3

\* the scopes an Environment driven alone is given
MaxScopes == 3

\* the tokens in the buffer of a parser
MaxTokens == 4

----------------------------------------------------------------------------
(* RuntimeValue: a type tag and the payload of that type.  n is the int of *)
(* an INT and the numerator (over FloatDen) of a FLOAT; s is a sequence of *)
(* characters; a is the element sequence of an ARRAY.                      *)

NoneV == [t |-> "NONE", n |-> 0, b |-> FALSE, s |-> <<>>, a |-> <<>>]

IntV(i) == [NoneV EXCEPT !.t = "INT", !.n = i]

FloatV(f) == [NoneV EXCEPT !.t = "FLOAT", !.n = f]

BoolV(x) == [NoneV EXCEPT !.t = "BOOL", !.b = x]

StrV(str) == [NoneV EXCEPT !.t = "STRING", !.s = str]

ArrayV(arr) == [NoneV EXCEPT !.t = "ARRAY", !.a = arr]

isNone(v) == v.t = "NONE"

isInt(v) == v.t = "INT"

isFloat(v) == v.t = "FLOAT"

isArray(v) == v.t = "ARRAY"

\* RuntimeValue::asBoolean: ARRAY falls into the default branch
asBoolean(v) ==
    CASE v.t = "NONE" -> FALSE
      [] v.t = "INT" -> v.n # 0
      [] v.t = "FLOAT" -> v.n # 0
      [] v.t = "BOOL" -> v.b
      [] v.t = "STRING" -> v.s # <<>>
      [] OTHER -> FALSE

Digit(d) == <<"0", "1", "2", "3", "4", "5", "6", "7", "8", "9">>[d + 1]

RECURSIVE NatDigits(_)
\* std::to_string of a non-negative int
NatDigits(i) == IF i < 10 THEN <<Digit(i)>> ELSE NatDigits(i \div 10) \o <<Digit(i % 10)>>

IntToString(i) == IF i < 0 THEN <<"-">> \o NatDigits(0 - i) ELSE NatDigits(i)

RECURSIVE FixedDigits(_, _)
\* the k low decimal digits of m, zero padded
FixedDigits(m, k) == IF k = 0 THEN <<>> ELSE FixedDigits(m \div 10, k - 1) \o <<Digit(m % 10)>>

RECURSIVE StripZeros(_)
\* while (str.size() > 1 && str.back() == '0') str.pop_back()
StripZeros(str) ==
    IF Len(str) > 1 /\ str[Len(str)] = "0" THEN StripZeros(SubSeq(str, 1, Len(str) - 1))
    ELSE str

\* std::fixed << std::setprecision(6) of f / FloatDen (f >= 0), then the trailing
\* zeros and a trailing dot removed
FloatToString(f) ==
    LET micro == (f * 1000000 + (FloatDen \div 2)) \div FloatDen
        fixed == NatDigits(micro \div 1000000) \o <<".">> \o FixedDigits(micro % 1000000, 6)
        str == StripZeros(fixed)
    IN IF str[Len(str)] = "." THEN SubSeq(str, 1, Len(str) - 1) ELSE str

\* RuntimeValue::toString: ARRAY falls into the default branch
toString(v) ==
    CASE v.t = "NONE" -> <<"n", "o", "n", "e">>
      [] v.t = "INT" -> IntToString(v.n)
      [] v.t = "FLOAT" -> FloatToString(v.n)
      [] v.t = "BOOL" -> IF v.b THEN <<"t", "r", "u", "e">> ELSE <<"f", "a", "l", "s", "e">>
      [] v.t = "STRING" -> v.s
      [] OTHER -> <<"u", "n", "k", "n", "o", "w", "n">>

\* The default element RuntimeValue::createArray builds for an element type.
\* For STRING the code writes RuntimeValue(""): the argument is a const char
\* array, and overload resolution prefers the standard pointer-to-bool
\* conversion of RuntimeValue(bool) to the user-defined conversion of
\* RuntimeValue(const std::string &), so the element is the Bool true.
defaultValue(elementType) ==
    CASE elementType = "INT" -> IntV(0)
      [] elementType = "FLOAT" -> FloatV(0)
      [] elementType = "BOOL" -> BoolV(FALSE)
      [] elementType = "STRING" -> BoolV(TRUE)
      [] OTHER -> NoneV

\* RuntimeValue::createArray with no nested dimension
createArray(elementType, size) == ArrayV([i \in 1..size |-> defaultValue(elementType)])

\* RuntimeValue::setElement, for an index the caller has checked
setElement(arrayVal, index, val) == [arrayVal EXCEPT !.a[index + 1] = val]

----------------------------------------------------------------------------
(* opCode::Instruction: an absent int operand is -1, an absent string "" *)

Instr(op, i1, i2, str) == [op |-> op, i1 |-> i1, i2 |-> i2, s |-> str]

Instr0(op) == Instr(op, -1, -1, "")

InstrI(op, i1) == Instr(op, i1, -1, "")

InstrS(op, str) == Instr(op, -1, -1, str)

InstrIS(op, i1, str) == Instr(op, i1, -1, str)

InstrII(op, i1, i2) == Instr(op, i1, i2, "")

----------------------------------------------------------------------------
(* AST nodes.  Every node is a record of the same shape: k the node class, *)
(* s its name, operator or member, s2 the keyword of a Declaration, n the  *)
(* value of a NumberLiteral (numerator over FloatDen) or BooleanLiteral    *)
(* (0, 1), str the characters of a string literal, kids the children.      *)

Node(k, s, s2, n, str, kids) ==
    [k |-> k, s |-> s, s2 |-> s2, n |-> n, str |-> str, kids |-> kids]

Nil == Node("Nil", "", "", 0, <<>>, <<>>)

Program(stmts) == Node("Program", "", "", 0, <<>>, stmts)

Block(stmts) == Node("Block", "", "", 0, <<>>, stmts)

ImportStatement(name) == Node("ImportStatement", name, "", 0, <<>>, <<>>)

\* kids: the body, then the parameters
Function(name, params, body) == Node("Function", name, "", 0, <<>>, <<body>> \o params)

Parameter(name) == Node("Parameter", name, "", 0, <<>>, <<>>)

Type(name) == Node("Type", name, "", 0, <<>>, <<>>)

ArrayType(elem, size) == Node("ArrayType", elem, "", 0, <<>>, <<size>>)

\* kids: the type and the initializer, Nil when absent
Declaration(keyword, name, type, init) == Node("Declaration", name, keyword, 0, <<>>, <<type, init>>)

ExpressionStatement(e) == Node("ExpressionStatement", "", "", 0, <<>>, <<e>>)

IfStatement(cond, then, else) == Node("IfStatement", "", "", 0, <<>>, <<cond, then, else>>)

WhileStatement(cond, body) == Node("WhileStatement", "", "", 0, <<>>, <<cond, body>>)

ForStatement(var, iterable, body) == Node("ForStatement", var, "", 0, <<>>, <<iterable, body>>)

ReturnStatement(value) == Node("ReturnStatement", "", "", 0, <<>>, <<value>>)

BreakStatement == Node("BreakStatement", "", "", 0, <<>>, <<>>)

ContinueStatement == Node("ContinueStatement", "", "", 0, <<>>, <<>>)

BinaryExpression(l, op, r) == Node("BinaryExpression", op, "", 0, <<>>, <<l, r>>)

UnaryExpression(op, x) == Node("UnaryExpression", op, "", 0, <<>>, <<x>>)

\* kids: the callee, then the arguments
FunctionCall(callee, args) == Node("FunctionCall", "", "", 0, <<>>, <<callee>> \o args)

MemberAccess(object, member) == Node("MemberAccess", member, "", 0, <<>>, <<object>>)

ArrayIndex(array, index) == Node("ArrayIndex", "", "", 0, <<>>, <<array, index>>)

GroupedExpression(e) == Node("GroupedExpression", "", "", 0, <<>>, <<e>>)

Identifier(name) == Node("Identifier", name, "", 0, <<>>, <<>>)

\* the double f / FloatDen
NumberLiteral(f) == Node("NumberLiteral", "", "", f, <<>>, <<>>)

\* the double of the integer i
IntLiteral(i) == NumberLiteral(i * FloatDen)

StringLiteral(str) == Node("StringLiteral", "", "", 0, str, <<>>)

BooleanLiteral(x) == Node("BooleanLiteral", "", "", IF x THEN 1 ELSE 0, <<>>, <<>>)

\* str: the raw string; kids: the placeholder expressions in order
FormatString(raw, values) == Node("FormatString", "", "", 0, raw, values)

RangeExpression(args) == Node("RangeExpression", "", "", 0, <<>>, args)

----------------------------------------------------------------------------
(* The compiler.  cs is the Compiler object: the module being built (code, *)
(* constants), the per-type constant caches (cmap: one map keyed by the    *)
(* typed value stands for intConstants, floatConstants, boolConstants and  *)
(* stringConstants), the loop-target stacks and the function registry.     *)

EmptyMap == [x \in {} |-> 0]

\* Compiler::compile, the state reset before program->accept(this)
newCompiler ==
    [code |-> <<>>, constants |-> <<>>, cmap |-> EmptyMap,
     breakTargets |-> <<>>, continueTargets |-> <<>>, loopDepth |-> 0,
     functions |-> EmptyMap, currentFunction |-> "", cerrs |-> <<>>]

\* BytecodeModule::getCurrentPosition
getCurrentPosition(cs) == Len(cs.code)

\* Compiler::addConstant: the index returned
addConstantIdx(cs, v) ==
    IF v.t \in {"INT", "FLOAT", "BOOL", "STRING"} /\ v \in DOMAIN cs.cmap
    THEN cs.cmap[v]
    ELSE Len(cs.constants)

\* addConstant without the lookup: every value is appended
addConstant_Mutant(cs, v) ==
    IF v.t \in {"INT", "FLOAT", "BOOL", "STRING"}
    THEN [cs EXCEPT !.constants = Append(@, v),
                    !.cmap = (v :> Len(cs.constants)) @@ @]
    ELSE [cs EXCEPT !.constants = Append(@, v)]

\* Compiler::addConstant: the compiler afterwards
addConstant(cs, v) ==
    IF v.t \in {"INT", "FLOAT", "BOOL", "STRING"}
    THEN IF v \in DOMAIN cs.cmap
         THEN cs
         ELSE [cs EXCEPT !.constants = Append(@, v),
                         !.cmap = (v :> Len(cs.constants)) @@ @]
    ELSE [cs EXCEPT !.constants = Append(@, v)]

\* Compiler::emit / BytecodeModule::addInstruction
emit(cs, instr) == [cs EXCEPT !.code = Append(@, instr)]

\* emit(LOAD_CONST, addConstant(v))
emitLoadConst(cs, v) == emit(addConstant(cs, v), InstrI("LOAD_CONST", addConstantIdx(cs, v)))

\* Compiler::emitJump: emits op with the placeholder target 0; the position
\* it returns is getCurrentPosition of the compiler before the call
emitJump(cs, op) == emit(cs, InstrI(op, 0))

\* BytecodeModule::patchJump
patchJumpTo(cs, instructionIndex, targetAddress) ==
    IF instructionIndex >= 0 /\ instructionIndex < Len(cs.code)
    THEN [cs EXCEPT !.code[instructionIndex + 1] =
              Instr(@.op, targetAddress, -1, @.s)]
    ELSE cs

\* patchJump with a target one past the current position
patchJump_Mutant(cs, instructionIndex) ==
    patchJumpTo(cs, instructionIndex, getCurrentPosition(cs) + 1)

\* Compiler::patchJump(int): the target is the current position
patchJump(cs, instructionIndex) == patchJumpTo(cs, instructionIndex, getCurrentPosition(cs))

\* Compiler::enterLoop
enterLoop(cs, continueAddr, breakAddr) ==
    [cs EXCEPT !.loopDepth = @ + 1,
               !.continueTargets = Append(@, continueAddr),
               !.breakTargets = Append(@, breakAddr)]

\* Compiler::exitLoop
exitLoop(cs) ==
    [cs EXCEPT !.loopDepth = @ - 1,
               !.continueTargets = SubSeq(@, 1, Len(@) - 1),
               !.breakTargets = SubSeq(@, 1, Len(@) - 1)]

\* Compiler::beginFunction
beginFunction(cs, name, params) ==
    [cs EXCEPT !.currentFunction = name,
               !.functions = (name :> [entryPoint |-> getCurrentPosition(cs),
                                       params |-> params]) @@ @]

\* Compiler::endFunction
endFunction(cs) == [cs EXCEPT !.currentFunction = ""]

compileError(cs, msg) == [cs EXCEPT !.cerrs = Append(@, msg)]

RECURSIVE accept(_, _)
RECURSIVE acceptAll(_, _)

\* for (auto stmt : ...) stmt->accept(this)
acceptAll(nodes, cs) ==
    IF nodes = <<>> THEN cs ELSE acceptAll(Tail(nodes), accept(Head(nodes), cs))

visitProgram(node, cs) == acceptAll(node.kids, cs)

visitBlock(node, cs) == acceptAll(node.kids, cs)

visitDeclaration(node, cs) ==
    LET type == node.kids[1]
        init == node.kids[2]
        storeOp == IF node.s2 = "var" THEN "STORE_VAR" ELSE "STORE_VAL"
    IN IF type.k = "ArrayType"
       THEN LET typeCode == CASE type.s = "int" -> 0
                              [] type.s = "float" -> 1
                              [] type.s = "bool" -> 2
                              [] type.s = "str" -> 3
                              [] OTHER -> 0
                c1 == accept(type.kids[1], cs)
                c2 == emitLoadConst(c1, IntV(typeCode))
                c3 == emit(c2, Instr0("ALLOC_ARRAY"))
            IN emit(c3, InstrS(storeOp, node.s))
       ELSE LET c1 == IF init.k # "Nil" THEN accept(init, cs) ELSE emitLoadConst(cs, NoneV)
            IN emit(c1, InstrS(storeOp, node.s))

visitExpressionStatement(node, cs) ==
    IF node.kids[1].k # "Nil" THEN accept(node.kids[1], cs) ELSE cs

\* val == static_cast<int>(val) selects the Int constant
visitNumberLiteral(node, cs) ==
    IF node.n % FloatDen = 0
    THEN emitLoadConst(cs, IntV(node.n \div FloatDen))
    ELSE emitLoadConst(cs, FloatV(node.n))

visitStringLiteral(node, cs) == emitLoadConst(cs, StrV(node.str))

visitBooleanLiteral(node, cs) == emitLoadConst(cs, BoolV(node.n = 1))

visitFormatString(node, cs) ==
    LET strIdx == addConstantIdx(cs, StrV(node.str))
        c1 == emitLoadConst(cs, StrV(node.str))
        c2 == acceptAll(node.kids, c1)
    IN emit(c2, InstrII("FORMAT", strIdx, Len(node.kids)))

visitIdentifier(node, cs) == emit(cs, InstrS("LOAD_VAR", node.s))

\* the opcode emitted for a binary operator other than "=", "" when unknown
binaryOpCode(op) ==
    CASE op = "+" -> "ADD"
      [] op = "-" -> "SUB"
      [] op = "*" -> "MUL"
      [] op = "/" -> "DIV"
      [] op = "<" -> "LT"
      [] op = "<=" -> "LE"
      [] op = ">" -> "GT"
      [] op = ">=" -> "GE"
      [] op = "==" -> "EQ"
      [] op = "!=" -> "NE"
      [] OTHER -> ""

visitBinaryExpression(node, cs) ==
    LET left == node.kids[1]
        right == node.kids[2]
    IN IF node.s = "="
       THEN IF left.k = "ArrayIndex"
            THEN LET arrName == IF left.kids[1].k = "Identifier" THEN left.kids[1].s ELSE ""
                     c1 == accept(left.kids[1], cs)
                     c2 == accept(left.kids[2], c1)
                     c3 == accept(right, c2)
                     c4 == emit(c3, Instr0("ARRAY_SET"))
                 IN IF arrName # "" THEN emit(c4, InstrS("STORE_VAR", arrName)) ELSE c4
            ELSE IF left.k # "Identifier"
                 THEN compileError(cs, "Left side of assignment must be identifier or array element")
                 ELSE emit(accept(right, cs), InstrS("STORE_VAR", left.s))
       ELSE LET c1 == accept(left, cs)
                c2 == accept(right, c1)
            IN IF binaryOpCode(node.s) # ""
               THEN emit(c2, Instr0(binaryOpCode(node.s)))
               ELSE compileError(c2, "Unknown operator")

visitUnaryExpression(node, cs) ==
    LET c1 == accept(node.kids[1], cs)
    IN CASE node.s = "-" ->
              emit(emit(emitLoadConst(c1, IntV(0)), Instr0("SWAP")), Instr0("SUB"))
         [] node.s = "!" -> emit(c1, Instr0("NOT"))
         [] OTHER -> c1

visitIfStatement(node, cs) ==
    LET then == node.kids[2]
        else == node.kids[3]
        c1 == accept(node.kids[1], cs)
        elseJump == getCurrentPosition(c1)
        c2 == emitJump(c1, "JMP_FALSE")
        c3 == IF then.k # "Nil" THEN accept(then, c2) ELSE c2
    IN IF else.k # "Nil"
       THEN LET endJump == getCurrentPosition(c3)
                c4 == emitJump(c3, "JMP")
                c5 == patchJump(c4, elseJump)
                c6 == accept(else, c5)
            IN patchJump(c6, endJump)
       ELSE patchJump(c3, elseJump)

visitWhileStatement(node, cs) ==
    LET body == node.kids[2]
        loopStart == getCurrentPosition(cs)
        c1 == accept(node.kids[1], cs)
        exitJump == getCurrentPosition(c1)
        c2 == emitJump(c1, "JMP_FALSE")
        c3 == enterLoop(c2, loopStart, getCurrentPosition(c2))
        c4 == IF body.k # "Nil" THEN accept(body, c3) ELSE c3
        c5 == emit(c4, InstrI("JMP", loopStart))
        c6 == exitLoop(c5)
    IN patchJump(c6, exitJump)

visitForStatement(node, cs) ==
    LET loopVar == node.s
        body == node.kids[2]
        c1 == accept(node.kids[1], cs)
        c2 == emit(c1, InstrS("STORE_VAR", "_step"))
        c3 == emit(c2, InstrS("STORE_VAR", "_end"))
        c4 == emit(c3, InstrS("STORE_VAR", loopVar))
        loopStart == getCurrentPosition(c4)
        c5 == emit(c4, InstrS("LOAD_VAR", loopVar))
        c6 == emit(c5, InstrS("LOAD_VAR", "_end"))
        c7 == emit(c6, Instr0("LT"))
        exitJump == getCurrentPosition(c7)
        c8 == emitJump(c7, "JMP_FALSE")
        c9 == enterLoop(c8, getCurrentPosition(c8), getCurrentPosition(c8))
        c10 == IF body.k # "Nil" THEN accept(body, c9) ELSE c9
        c11 == emit(c10, InstrS("LOAD_VAR", loopVar))
        c12 == emit(c11, InstrS("LOAD_VAR", "_step"))
        c13 == emit(c12, Instr0("ADD"))
        c14 == emit(c13, InstrS("STORE_VAR", loopVar))
        c15 == emit(c14, InstrI("JMP", loopStart))
        c16 == exitLoop(c15)
    IN patchJump(c16, exitJump)

visitReturnStatement(node, cs) ==
    LET c1 == IF node.kids[1].k # "Nil" THEN accept(node.kids[1], cs)
              ELSE emitLoadConst(cs, NoneV)
    IN emit(c1, Instr0("RET"))

visitBreakStatement(node, cs) ==
    IF cs.loopDepth > 0 /\ cs.breakTargets # <<>>
    THEN emit(cs, InstrI("JMP", cs.breakTargets[Len(cs.breakTargets)]))
    ELSE compileError(cs, "break outside loop")

visitContinueStatement(node, cs) ==
    IF cs.loopDepth > 0 /\ cs.continueTargets # <<>>
    THEN emit(cs, InstrI("JMP", cs.continueTargets[Len(cs.continueTargets)]))
    ELSE compileError(cs, "continue outside loop")

visitRangeExpression(node, cs) ==
    LET c1 == acceptAll(node.kids, cs)
    IN IF Len(node.kids) = 2 THEN emitLoadConst(c1, IntV(1)) ELSE c1

\* "print" when funcName is "print" or "io.print"; then the opcode is BUILTIN
isPrintCallee(callee) ==
    \/ callee.k = "Identifier" /\ callee.s = "print"
    \/ /\ callee.k = "MemberAccess"
       /\ callee.kids[1].k = "Identifier"
       /\ callee.kids[1].s = "io"
       /\ callee.s = "print"

\* the funcName of a call that is not print: the identifier, or object.member
calleeName(callee) ==
    CASE callee.k = "Identifier" -> callee.s
      [] callee.k = "MemberAccess" /\ callee.kids[1].k = "Identifier" ->
            callee.kids[1].s \o "." \o callee.s
      [] OTHER -> ""

visitFunctionCall(node, cs) ==
    LET callee == node.kids[1]
        args == Tail(node.kids)
        c1 == acceptAll(args, cs)
    IN IF isPrintCallee(callee)
       THEN emit(c1, InstrIS("BUILTIN", Len(args), "print"))
       ELSE emit(c1, InstrIS("CALL", Len(args), calleeName(callee)))

visitGroupedExpression(node, cs) == accept(node.kids[1], cs)

visitFunction(node, cs) ==
    LET body == node.kids[1]
        params == [i \in 1..(Len(node.kids) - 1) |-> node.kids[i + 1].s]
        c1 == beginFunction(cs, node.s, params)
        c2 == IF body.k # "Nil" THEN accept(body, c1) ELSE c1
        c3 == IF c2.code = <<>> \/ c2.code[Len(c2.code)].op # "RET"
              THEN emit(emitLoadConst(c2, IntV(0)), Instr0("RET"))
              ELSE c2
    IN endFunction(c3)

visitArrayIndex(node, cs) ==
    emit(accept(node.kids[2], accept(node.kids[1], cs)), Instr0("ARRAY_GET"))

\* node->accept(this): the visit of the node's class; ImportStatement,
\* ModuleStatement, Parameter, Type, ArrayType and MemberAccess emit nothing
accept(node, cs) ==
    CASE node.k = "Program" -> visitProgram(node, cs)
      [] node.k = "Block" -> visitBlock(node, cs)
      [] node.k = "Declaration" -> visitDeclaration(node, cs)
      [] node.k = "ExpressionStatement" -> visitExpressionStatement(node, cs)
      [] node.k = "NumberLiteral" -> visitNumberLiteral(node, cs)
      [] node.k = "StringLiteral" -> visitStringLiteral(node, cs)
      [] node.k = "BooleanLiteral" -> visitBooleanLiteral(node, cs)
      [] node.k = "FormatString" -> visitFormatString(node, cs)
      [] node.k = "Identifier" -> visitIdentifier(node, cs)
      [] node.k = "BinaryExpression" -> visitBinaryExpression(node, cs)
      [] node.k = "UnaryExpression" -> visitUnaryExpression(node, cs)
      [] node.k = "IfStatement" -> visitIfStatement(node, cs)
      [] node.k = "WhileStatement" -> visitWhileStatement(node, cs)
      [] node.k = "ForStatement" -> visitForStatement(node, cs)
      [] node.k = "ReturnStatement" -> visitReturnStatement(node, cs)
      [] node.k = "BreakStatement" -> visitBreakStatement(node, cs)
      [] node.k = "ContinueStatement" -> visitContinueStatement(node, cs)
      [] node.k = "RangeExpression" -> visitRangeExpression(node, cs)
      [] node.k = "FunctionCall" -> visitFunctionCall(node, cs)
      [] node.k = "GroupedExpression" -> visitGroupedExpression(node, cs)
      [] node.k = "Function" -> visitFunction(node, cs)
      [] node.k = "ArrayIndex" -> visitArrayIndex(node, cs)
      [] OTHER -> cs

\* Compiler::compile: the program, then HALT; pendingPatches is empty, since
\* nothing ever adds to it, so its loop patches nothing
compile(prog) == emit(accept(prog, newCompiler), Instr0("HALT"))

----------------------------------------------------------------------------
(* The virtual machine *)

EmptyLocals == [x \in {} |-> NoneV]

\* CallFrame::CallFrame
CallFrame(name, retAddr, varSize) ==
    [functionName |-> name, returnAddress |-> retAddr, varStackSize |-> varSize,
     localVars |-> EmptyLocals]

\* CallFrame::hasVariable
hasVariable(frame, name) == name \in DOMAIN frame.localVars

\* CallFrame::declareVariable: the frame afterwards (unchanged when name exists)
frameDeclareVariable(frame, name, value) ==
    IF hasVariable(frame, name) THEN frame
    ELSE [frame EXCEPT !.localVars = (name :> value) @@ @]

\* CallFrame::setVariable: the frame afterwards (unchanged when name is absent)
frameSetVariable(frame, name, value) ==
    IF hasVariable(frame, name) THEN [frame EXCEPT !.localVars[name] = value]
    ELSE frame

\* the frames that bind name
Binding(stack, name) == {i \in 1..Len(stack) : hasVariable(stack[i], name)}

\* the topmost frame that binds name: where the loops of setVariable and
\* getVariable, which run from callStack.size() - 1 down to 0, stop
TopBinding(stack, name) == CHOOSE i \in Binding(stack, name) : \A j \in Binding(stack, name) : j <= i

\* setVariable with its loop run from frame 0 upwards
setVariable_Mutant(stack, name, value) ==
    IF Binding(stack, name) = {} THEN stack
    ELSE LET lowest == CHOOSE i \in Binding(stack, name) : \A j \in Binding(stack, name) : i <= j
         IN [stack EXCEPT ![lowest] = frameSetVariable(@, name, value)]

\* VirtualMachine::setVariable: the call stack afterwards
setVariable(stack, name, value) ==
    IF Binding(stack, name) = {} THEN stack
    ELSE [stack EXCEPT ![TopBinding(stack, name)] = frameSetVariable(@, name, value)]

\* VirtualMachine::declareVariable: the call stack afterwards
declareVariable(stack, name, value) ==
    IF stack = <<>> THEN stack
    ELSE [stack EXCEPT ![Len(stack)] = frameDeclareVariable(@, name, value)]

\* STORE_VAR / STORE_VAL: if (!setVariable(name, val)) declareVariable(name, val)
storeVariable(stack, name, value) ==
    IF Binding(stack, name) # {} THEN setVariable(stack, name, value)
    ELSE declareVariable(stack, name, value)

RECURSIVE NatString(_)
\* std::to_string of a non-negative int, as a string
NatString(i) == IF i < 10 THEN Digit(i) ELSE NatString(i \div 10) \o Digit(i % 10)

\* "p" + std::to_string(i)
paramName(i) == "p" \o NatString(i)

RECURSIVE bindParams(_, _, _)
\* the loop of callFunction that declares p0, p1, ... in the new frame
bindParams(frame, args, i) ==
    IF i >= Len(args) THEN frame
    ELSE bindParams(frameDeclareVariable(frame, paramName(i), args[i + 1]), args, i + 1)

\* callFunction with the parameters bound in pop order
callFunction_Mutant(stack, name, args, returnAddr) ==
    LET currentVarSize == IF stack = <<>> THEN 0 ELSE stack[Len(stack)].varStackSize
        reversed == [i \in 1..Len(args) |-> args[Len(args) + 1 - i]]
    IN Append(stack, bindParams(CallFrame(name, returnAddr, currentVarSize + 1), reversed, 0))

\* VirtualMachine::callFunction: the call stack afterwards; returnAddr is pc,
\* which run has already incremented
callFunction(stack, name, args, returnAddr) ==
    LET currentVarSize == IF stack = <<>> THEN 0 ELSE stack[Len(stack)].varStackSize
    IN Append(stack, bindParams(CallFrame(name, returnAddr, currentVarSize + 1), args, 0))

\* left.isInt() ? left.getInt() : left.getFloat(), as a numerator over FloatDen;
\* getFloat throws for a value that is not a FLOAT
asDoubleThrows(v) == ~isInt(v) /\ ~isFloat(v)

asDouble(v) == IF isInt(v) THEN v.n * FloatDen ELSE v.n

\* the result of an instruction on its operands: it throws, or it pushes
\* value after writing the messages errs to std::cerr
Pushes(value, msgs) == [throws |-> FALSE, value |-> value, errs |-> msgs]

ThrowsError == [throws |-> TRUE, value |-> NoneV, errs |-> <<>>]

\* case ADD
execADD(left, right) ==
    IF isNone(left) \/ isNone(right) THEN Pushes(NoneV, <<"Cannot add none value">>)
    ELSE IF isInt(left) /\ isInt(right) THEN Pushes(IntV(left.n + right.n), <<>>)
    ELSE IF asDoubleThrows(left) \/ asDoubleThrows(right) THEN ThrowsError
    ELSE Pushes(FloatV(asDouble(left) + asDouble(right)), <<>>)

\* l op r on doubles for the four ordering opcodes
compareDoubles(op, l, r) ==
    CASE op = "LT" -> l < r
      [] op = "LE" -> l <= r
      [] op = "GT" -> l > r
      [] op = "GE" -> l >= r

\* case LT, LE, GT, GE
execCompare(op, left, right) ==
    IF isNone(left) \/ isNone(right) THEN Pushes(BoolV(FALSE), <<"Cannot compare none">>)
    ELSE IF asDoubleThrows(left) \/ asDoubleThrows(right) THEN ThrowsError
    ELSE Pushes(BoolV(compareDoubles(op, asDouble(left), asDouble(right))), <<>>)

\* EQ with Int widened to Float when the operands are an Int and a Float
execEQ_Mutant(left, right) ==
    IF isNone(left) \/ isNone(right) THEN BoolV(isNone(left) /\ isNone(right))
    ELSE IF (isInt(left) \/ isFloat(left)) /\ (isInt(right) \/ isFloat(right))
    THEN BoolV(asDouble(left) = asDouble(right))
    ELSE IF left.t # right.t THEN BoolV(FALSE)
    ELSE CASE left.t = "BOOL" -> BoolV(left.b = right.b)
           [] left.t = "STRING" -> BoolV(left.s = right.s)
           [] OTHER -> BoolV(FALSE)

\* case EQ
execEQ(left, right) ==
    IF isNone(left) \/ isNone(right) THEN BoolV(isNone(left) /\ isNone(right))
    ELSE IF left.t # right.t THEN BoolV(FALSE)
    ELSE CASE left.t = "INT" -> BoolV(left.n = right.n)
           [] left.t = "FLOAT" -> BoolV(left.n = right.n)
           [] left.t = "BOOL" -> BoolV(left.b = right.b)
           [] left.t = "STRING" -> BoolV(left.s = right.s)
           [] OTHER -> BoolV(FALSE)

\* case NE
execNE(left, right) ==
    IF isNone(left) \/ isNone(right) THEN BoolV(~(isNone(left) /\ isNone(right)))
    ELSE IF left.t # right.t THEN BoolV(TRUE)
    ELSE CASE left.t = "INT" -> BoolV(left.n # right.n)
           [] left.t = "FLOAT" -> BoolV(left.n # right.n)
           [] left.t = "BOOL" -> BoolV(left.b # right.b)
           [] left.t = "STRING" -> BoolV(left.s # right.s)
           [] OTHER -> BoolV(TRUE)

\* case ALLOC_ARRAY, after the two pops
execALLOC_ARRAY(typeVal, sizeVal) ==
    IF ~isInt(sizeVal) THEN Pushes(NoneV, <<"Array size must be integer">>)
    ELSE IF sizeVal.n < 0 THEN Pushes(NoneV, <<"Array size cannot be negative">>)
    ELSE LET elementType ==
                 IF isInt(typeVal)
                 THEN CASE typeVal.n = 0 -> "INT"
                        [] typeVal.n = 1 -> "FLOAT"
                        [] typeVal.n = 2 -> "BOOL"
                        [] typeVal.n = 3 -> "STRING"
                        [] OTHER -> "INT"
                 ELSE "INT"
         IN Pushes(createArray(elementType, sizeVal.n), <<>>)

\* case ARRAY_GET, after the two pops
execARRAY_GET(arrayVal, indexVal) ==
    IF ~isArray(arrayVal) THEN Pushes(NoneV, <<"Cannot index non-array value">>)
    ELSE IF ~isInt(indexVal) THEN Pushes(NoneV, <<"Array index must be integer">>)
    ELSE IF indexVal.n < 0 \/ indexVal.n >= Len(arrayVal.a)
         THEN Pushes(NoneV, <<"Array index out of bounds">>)
    ELSE Pushes(arrayVal.a[indexVal.n + 1], <<>>)

\* case ARRAY_SET, after the three pops
execARRAY_SET(arrayVal, indexVal, valueVal) ==
    IF ~isArray(arrayVal) THEN Pushes(NoneV, <<"Cannot index non-array value">>)
    ELSE IF ~isInt(indexVal) THEN Pushes(NoneV, <<"Array index must be integer">>)
    ELSE IF indexVal.n < 0 \/ indexVal.n >= Len(arrayVal.a)
         THEN Pushes(NoneV, <<"Array index out of bounds">>)
    ELSE Pushes(setElement(arrayVal, indexVal.n, valueVal), <<>>)

\* formatStr.find('}', pos), -1 for npos; pos is 0-based
RECURSIVE findClose(_, _)
findClose(str, pos) ==
    IF pos >= Len(str) THEN -1
    ELSE IF str[pos + 1] = "}" THEN pos
    ELSE findClose(str, pos + 1)

\* formatStr.substr(from)
substrFrom(str, from) == SubSeq(str, from + 1, Len(str))

\* formatStr.substr(from, count)
substr(str, from, count) == SubSeq(str, from + 1, from + count)

\* the scanning loop of case FORMAT and the append after it; the result is
\* the string built and the number of "missing value" warnings
RECURSIVE formatScan(_, _, _, _, _, _, _)
formatScan(str, args, pos, lastPos, varIndex, result, warns) ==
    LET tail(res) == IF lastPos < Len(str) THEN res \o substrFrom(str, lastPos) ELSE res
    IN IF pos >= Len(str) THEN [result |-> tail(result), warns |-> warns]
       ELSE IF str[pos + 1] = "{"
       THEN LET r1 == IF pos > lastPos THEN result \o substr(str, lastPos, pos - lastPos)
                      ELSE result
                endPos == findClose(str, pos)
            IN IF endPos = -1
               THEN \* break: lastPos is not moved, so the append after the loop
                    \* still starts at lastPos
                    [result |-> tail(r1 \o substrFrom(str, pos)), warns |-> warns]
               ELSE IF varIndex < Len(args)
                    THEN formatScan(str, args, endPos + 1, endPos + 1, varIndex + 1,
                                    r1 \o toString(args[varIndex + 1]), warns)
                    ELSE formatScan(str, args, endPos + 1, endPos + 1, varIndex + 1,
                                    r1, warns + 1)
       ELSE formatScan(str, args, pos + 1, lastPos, varIndex, result, warns)

RECURSIVE joinArgs(_, _)
\* what the print builtin writes for args[i..]: the strings, " " between them
joinArgs(args, i) ==
    IF i > Len(args) THEN <<>>
    ELSE (IF i > 1 THEN <<" ">> ELSE <<>>) \o toString(args[i]) \o joinArgs(args, i + 1)

\* the builtins map after initBuiltins
builtins == {"print"}

----------------------------------------------------------------------------
(* The state machine *)

\* the condition of the loop of run
LoopCondition == running /\ pc >= 0 /\ pc < Len(code)

InLoop == status = "loop" /\ LoopCondition /\ steps < MaxSteps

\* const auto &instr = code[pc]
Fetch == code[pc + 1]

\* the k-th value below the top of the eval stack (0 is the top)
Top(k) == evalStack[Len(evalStack) - k]

\* the eval stack after k pops
Popped(k) == SubSeq(evalStack, 1, Len(evalStack) - k)

\* the last k values of the eval stack in the order they were pushed: popArgs
TopArgs(k) == SubSeq(evalStack, Len(evalStack) - k + 1, Len(evalStack))

\* every step of the loop: pc++ (done by each action), the instruction counted
\* and recorded
Executed ==
    /\ steps' = steps + 1
    /\ hist' = [instr |-> Fetch, pc |-> pc, evalStack |-> evalStack,
                callStack |-> callStack, nerrs |-> Len(errs), out |-> out]
    /\ UNCHANGED <<program, code, constants, poolVars, analyzerVars, parserVars, interpreterVars, mainVars>>

\* the instruction ends normally at the next address
Continue(stack, msgs) ==
    /\ pc' = pc + 1
    /\ evalStack' = stack
    /\ errs' = errs \o msgs
    /\ UNCHANGED <<running, callStack, out, status>>

\* an exception leaves execute and run: nothing catches it
Throw(stack, msgs) ==
    /\ pc' = pc + 1
    /\ evalStack' = stack
    /\ errs' = errs \o msgs
    /\ status' = "thrown"
    /\ UNCHANGED <<running, callStack, out>>

\* VirtualMachine::pop on an empty eval stack, after the pops that emptied it
PopThrow == Throw(<<>>, <<"FATAL: Cannot pop from empty eval stack">>)

\* an instruction whose handler pops k operands and then pushes one result
PopPush(k, r) ==
    IF r.throws THEN Throw(Popped(k), <<>>)
    ELSE Continue(Append(Popped(k), r.value), r.errs)

ExecLOAD_CONST ==
    /\ InLoop /\ Fetch.op = "LOAD_CONST"
    /\ Continue(Append(evalStack, constants[Fetch.i1 + 1]), <<>>)
    /\ Executed

ExecLOAD_VAR ==
    /\ InLoop /\ Fetch.op \in {"LOAD_VAR", "LOAD_VAL"}
    /\ IF Binding(callStack, Fetch.s) # {}
       THEN Continue(Append(evalStack,
                            callStack[TopBinding(callStack, Fetch.s)].localVars[Fetch.s]), <<>>)
       ELSE Continue(Append(evalStack, NoneV), <<"Undefined variable">>)
    /\ Executed

ExecSTORE_VAR ==
    /\ InLoop /\ Fetch.op \in {"STORE_VAR", "STORE_VAL"}
    /\ IF Len(evalStack) < 1 THEN PopThrow
       ELSE /\ pc' = pc + 1
            /\ evalStack' = Popped(1)
            /\ callStack' = storeVariable(callStack, Fetch.s, Top(0))
            /\ UNCHANGED <<running, out, errs, status>>
    /\ Executed

ExecALLOC_ARRAY ==
    /\ InLoop /\ Fetch.op = "ALLOC_ARRAY"
    /\ IF Len(evalStack) < 2 THEN PopThrow
       ELSE PopPush(2, execALLOC_ARRAY(Top(0), Top(1)))
    /\ Executed

ExecARRAY_GET ==
    /\ InLoop /\ Fetch.op = "ARRAY_GET"
    /\ IF Len(evalStack) < 2 THEN PopThrow
       ELSE PopPush(2, execARRAY_GET(Top(1), Top(0)))
    /\ Executed

ExecARRAY_SET ==
    /\ InLoop /\ Fetch.op = "ARRAY_SET"
    /\ IF Len(evalStack) < 3 THEN PopThrow
       ELSE PopPush(3, execARRAY_SET(Top(2), Top(1), Top(0)))
    /\ Executed

ExecADD ==
    /\ InLoop /\ Fetch.op = "ADD"
    /\ IF Len(evalStack) < 2 THEN PopThrow
       ELSE PopPush(2, execADD(Top(1), Top(0)))
    /\ Executed

ExecCompare ==
    /\ InLoop /\ Fetch.op \in {"LT", "LE", "GT", "GE"}
    /\ IF Len(evalStack) < 2 THEN PopThrow
       ELSE PopPush(2, execCompare(Fetch.op, Top(1), Top(0)))
    /\ Executed

ExecEQ ==
    /\ InLoop /\ Fetch.op = "EQ"
    /\ IF Len(evalStack) < 2 THEN PopThrow
       ELSE PopPush(2, Pushes(execEQ(Top(1), Top(0)), <<>>))
    /\ Executed

ExecNE ==
    /\ InLoop /\ Fetch.op = "NE"
    /\ IF Len(evalStack) < 2 THEN PopThrow
       ELSE PopPush(2, Pushes(execNE(Top(1), Top(0)), <<>>))
    /\ Executed

ExecJMP ==
    /\ InLoop /\ Fetch.op = "JMP"
    /\ pc' = Fetch.i1
    /\ UNCHANGED <<running, evalStack, callStack, out, errs, status>>
    /\ Executed

ExecJMP_FALSE ==
    /\ InLoop /\ Fetch.op = "JMP_FALSE"
    /\ IF Len(evalStack) < 1 THEN PopThrow
       ELSE /\ pc' = IF ~asBoolean(Top(0)) THEN Fetch.i1 ELSE pc + 1
            /\ evalStack' = Popped(1)
            /\ UNCHANGED <<running, callStack, out, errs, status>>
    /\ Executed

ExecCALL ==
    /\ InLoop /\ Fetch.op = "CALL"
    /\ IF Len(evalStack) < Fetch.i1 THEN PopThrow
       ELSE /\ pc' = pc + 1
            /\ evalStack' = Popped(Fetch.i1)
            /\ callStack' = callFunction(callStack, Fetch.s, TopArgs(Fetch.i1), pc + 1)
            /\ UNCHANGED <<running, out, errs, status>>
    /\ Executed

\* VirtualMachine::returnFromFunction
ExecRET ==
    /\ InLoop /\ Fetch.op = "RET"
    /\ IF callStack = <<>>
       THEN Continue(evalStack, <<"return from empty call stack">>)
       ELSE IF Len(evalStack) < 1 THEN PopThrow
       ELSE /\ callStack' = SubSeq(callStack, 1, Len(callStack) - 1)
            /\ pc' = IF Len(callStack) = 1 THEN -1
                     ELSE callStack[Len(callStack)].returnAddress
            /\ evalStack' = Append(Popped(1), Top(0))
            /\ UNCHANGED <<running, out, errs, status>>
    /\ Executed

ExecBUILTIN ==
    /\ InLoop /\ Fetch.op = "BUILTIN"
    /\ IF Len(evalStack) < Fetch.i1 THEN PopThrow
       ELSE IF Fetch.s \in builtins
       THEN /\ pc' = pc + 1
            /\ out' = out \o joinArgs(TopArgs(Fetch.i1), 1)
            /\ evalStack' = Append(Popped(Fetch.i1), NoneV)
            /\ UNCHANGED <<running, callStack, errs, status>>
       ELSE Continue(Append(Popped(Fetch.i1), NoneV), <<"Unknown builtin">>)
    /\ Executed

ExecNOT ==
    /\ InLoop /\ Fetch.op = "NOT"
    /\ IF evalStack = <<>>
       THEN Continue(Append(evalStack, NoneV), <<"NOT requires operand">>)
       ELSE Continue(Append(Popped(1), BoolV(~asBoolean(Top(0)))), <<>>)
    /\ Executed

ExecSWAP ==
    /\ InLoop /\ Fetch.op = "SWAP"
    /\ IF Len(evalStack) < 2
       THEN Continue(Append(evalStack, NoneV), <<"SWAP requires 2 operands">>)
       ELSE Continue(Popped(2) \o <<Top(0), Top(1)>>, <<>>)
    /\ Executed

ExecFORMAT ==
    /\ InLoop /\ Fetch.op = "FORMAT"
    /\ IF Fetch.i1 < 0 \/ Fetch.i1 >= Len(constants)
       THEN Continue(Append(evalStack, NoneV), <<"Invalid format string index">>)
       ELSE IF constants[Fetch.i1 + 1].t # "STRING"
       THEN Continue(Append(evalStack, NoneV), <<"FORMAT expected string">>)
       ELSE IF Len(evalStack) < Fetch.i2
       THEN Continue(Append(evalStack, NoneV), <<"FORMAT missing arguments">>)
       ELSE LET r == formatScan(constants[Fetch.i1 + 1].s, TopArgs(Fetch.i2), 0, 0, 0, <<>>, 0)
            IN Continue(Append(Popped(Fetch.i2), StrV(r.result)),
                        [i \in 1..r.warns |-> "FORMAT missing value"])
    /\ Executed

ExecHALT ==
    /\ InLoop /\ Fetch.op = "HALT"
    /\ pc' = pc + 1
    /\ running' = FALSE
    /\ UNCHANGED <<evalStack, callStack, out, errs, status>>
    /\ Executed

\* the default branch of the switch: execute has no case for these opcodes
ExecDefault ==
    /\ InLoop /\ Fetch.op \in {"SUB", "MUL", "DIV", "JMP_TRUE"}
    /\ Continue(evalStack, <<"Unknown opcode">>)
    /\ Executed

\* run after its loop: every frame is popped and run returns true
RunReturn ==
    /\ status = "loop" /\ ~LoopCondition
    /\ callStack' = <<>>
    /\ status' = "returned"
    /\ UNCHANGED <<program, code, constants, pc, running, evalStack, out, errs, steps, hist>>
    /\ UNCHANGED <<poolVars, analyzerVars, parserVars, interpreterVars, mainVars>>

----------------------------------------------------------------------------
(* env::Environment: the scopes, the global one first; a scope maps a name  *)
(* to its Symbol.  The operators take the scopes and give the scopes        *)
(* afterwards.                                                              *)

Symbol(name, type, dataType, scopeLevel, moduleName) ==
    [name |-> name, type |-> type, dataType |-> dataType, scopeLevel |-> scopeLevel,
     moduleName |-> moduleName]

\* the nullptr that lookupSymbol returns
NoSymbol == Symbol("", "NULL", "UNKNOWN", 0, "")

EmptyScope == [x \in {} |-> NoSymbol]

\* Environment::Environment: the global scope
newEnvironment == <<EmptyScope>>

\* env::dataTypeToString
dataTypeToString(type) ==
    CASE type = "INT" -> "int"
      [] type = "FLOAT" -> "float"
      [] type = "STR" -> "str"
      [] type = "BOOL" -> "bool"
      [] type = "NONE" -> "none"
      [] OTHER -> "unknown"

\* Environment::enterScope
enterScope(scopes) == Append(scopes, EmptyScope)

exitScope_Mutant(scopes) == scopes

\* Environment::exitScope
exitScope(scopes) == IF scopes # <<>> THEN SubSeq(scopes, 1, Len(scopes) - 1) ELSE scopes

\* if (scopes.empty()) scopes.emplace_back()
atLeastOneScope(scopes) == IF scopes = <<>> THEN <<EmptyScope>> ELSE scopes

canDeclareVariable_Mutant(scopes, name) ==
    \A i \in 1..Len(scopes) : name \notin DOMAIN scopes[i]

\* the value Environment::declareVariable returns
canDeclareVariable(scopes, name) ==
    name \notin DOMAIN atLeastOneScope(scopes)[Len(atLeastOneScope(scopes))]

\* Environment::declareVariable: the scopes afterwards
envDeclareVariable(scopes, name, type) ==
    LET s == atLeastOneScope(scopes)
    IN IF name \in DOMAIN s[Len(s)] THEN s
       ELSE [s EXCEPT ![Len(s)] =
                (name :> Symbol(name, "VARIABLE", type, Len(s) - 1, "")) @@ @]

\* the value Environment::declareFunction returns
canDeclareFunction(scopes, name, moduleName) ==
    (moduleName \o "." \o name) \notin DOMAIN atLeastOneScope(scopes)[1]

\* Environment::declareFunction: the scopes afterwards
envDeclareFunction(scopes, name, returnType, moduleName) ==
    LET s == atLeastOneScope(scopes)
        fullName == moduleName \o "." \o name
    IN IF fullName \in DOMAIN s[1] THEN s
       ELSE [s EXCEPT ![1] = (fullName :> Symbol(name, "FUNCTION", returnType, 0, moduleName)) @@ @]

\* Environment::declareModule: the scopes afterwards
envDeclareModule(scopes, name) ==
    LET s == atLeastOneScope(scopes)
    IN IF name \in DOMAIN s[1] THEN s
       ELSE [s EXCEPT ![1] = (name :> Symbol(name, "MODULE", "NONE", 0, "")) @@ @]

\* Environment::lookupSymbol: the loop runs from the last scope down to scope 0
lookupSymbol(scopes, name) ==
    LET binders == {i \in 1..Len(scopes) : name \in DOMAIN scopes[i]}
    IN IF binders = {} THEN NoSymbol
       ELSE scopes[CHOOSE i \in binders : \A j \in binders : j <= i][name]

isTypeCompatible_Mutant(target, source) == target = source

\* Environment::isTypeCompatible
isTypeCompatible(target, source) ==
    \/ target = source
    \/ target = "FLOAT" /\ source = "INT"

\* Environment::isNumericType
isNumericType(type) == type \in {"INT", "FLOAT"}

----------------------------------------------------------------------------
(* analyzer::SemanticAnalyzer.  The members are the fields of one record;   *)
(* the visit of an expression is an operator from the analyzer before to    *)
(* the analyzer after it.                                                   *)

\* SemanticAnalyzer::SemanticAnalyzer
newAnalyzer ==
    [scopes |-> newEnvironment, errors |-> <<>>, hasError |-> FALSE,
     currentFunction |-> "", currentFunctionReturnType |-> "NONE",
     hasReturnStatement |-> FALSE, loopDepth |-> 0, currentModule |-> "",
     typeStack |-> <<>>]

\* SemanticAnalyzer::error
error(a, msg) == [a EXCEPT !.errors = Append(@, msg), !.hasError = TRUE]

\* typeStack.push
pushType(a, type) == [a EXCEPT !.typeStack = Append(@, type)]

\* typeStack.pop; every pop of the analyzer follows the visit of an
\* expression, which has pushed
popType(a) == [a EXCEPT !.typeStack = SubSeq(@, 1, Len(@) - 1)]

\* SemanticAnalyzer::getCurrentType
getCurrentType(a) ==
    IF a.typeStack = <<>> THEN "UNKNOWN" ELSE a.typeStack[Len(a.typeStack)]

\* the type SemanticAnalyzer::getDataTypeFromAST returns for a Type named
\* typeName; "" stands for the null pointer
dataTypeFromAST(typeName) ==
    CASE typeName = "" -> "NONE"
      [] typeName = "int" -> "INT"
      [] typeName = "float" -> "FLOAT"
      [] typeName = "str" -> "STR"
      [] typeName = "bool" -> "BOOL"
      [] OTHER -> "UNKNOWN"

\* SemanticAnalyzer::getDataTypeFromAST: the analyzer afterwards
getDataTypeFromAST(a, typeName) ==
    IF typeName \in {"", "int", "float", "str", "bool"} THEN a
    ELSE error(a, "Unknown type: " \o typeName)

\* SemanticAnalyzer::checkTypeCompatibility
checkTypeCompatibility(a, target, source, context) ==
    IF isTypeCompatible(target, source) THEN a
    ELSE error(a, "Type mismatch in " \o context \o ": expected " \o dataTypeToString(target)
                      \o ", got " \o dataTypeToString(source))

\* the nodes the compiler never reads a type from: a module statement, a
\* parameter with its type, a function with its return type (s2: the name
\* of the type, "" when there is none)
ModuleStatement(name) == Node("ModuleStatement", name, "", 0, <<>>, <<>>)

TypedParameter(name, type) == Node("Parameter", name, type, 0, <<>>, <<>>)

TypedFunction(name, params, returnType, body) ==
    Node("Function", name, returnType, 0, <<>>, <<body>> \o params)

\* Type::getName of the Type a declaration holds, "" for no Type
typeNameOf(type) == IF type.k = "Nil" THEN "" ELSE type.s

RECURSIVE saAccept(_, _)

RECURSIVE saAcceptEach(_, _, _)

\* for (arg : args) arg->accept(this), from the i-th on
saAcceptEach(a, exprs, i) ==
    IF i > Len(exprs) THEN a ELSE saAcceptEach(saAccept(a, exprs[i]), exprs, i + 1)

\* symbol lookup of visit(Identifier): the module's function, the builtin,
\* the plain name
lookupIdentifier(a, name) ==
    LET own == lookupSymbol(a.scopes, a.currentModule \o "." \o name)
        builtin == lookupSymbol(a.scopes, "__builtins__." \o name)
    IN IF own # NoSymbol THEN own
       ELSE IF builtin # NoSymbol THEN builtin
       ELSE lookupSymbol(a.scopes, name)

\* SemanticAnalyzer::visit(Identifier)
saVisitIdentifier(a, e) ==
    LET sym == lookupIdentifier(a, e.s)
    IN IF sym = NoSymbol
       THEN pushType(error(a, "Undeclared identifier: '" \o e.s \o "'"), "UNKNOWN")
       ELSE pushType(a, sym.dataType)

\* SemanticAnalyzer::visit(NumberLiteral)
saVisitNumberLiteral(a, e) ==
    IF e.n % FloatDen = 0 THEN pushType(a, "INT") ELSE pushType(a, "FLOAT")

\* SemanticAnalyzer::visit(FormatString)
saVisitFormatString(a, e) == pushType(saAcceptEach(a, e.kids, 1), "STR")

\* the type that visit(BinaryExpression) pushes for the operator op and the
\* operand types
binaryResultType(op, leftType, rightType) ==
    CASE op = "=" -> leftType
      [] op \in {"+", "-", "*", "/", "%"} ->
            IF op = "+" /\ (leftType = "STR" \/ rightType = "STR") THEN "STR"
            ELSE IF ~isNumericType(leftType) \/ ~isNumericType(rightType) THEN "UNKNOWN"
            ELSE IF leftType = "FLOAT" \/ rightType = "FLOAT" THEN "FLOAT"
            ELSE "INT"
      [] op \in {"==", "!=", "<", ">", "<=", ">="} -> "BOOL"
      [] op \in {"&&", "||"} -> "BOOL"
      [] OTHER -> "UNKNOWN"

binaryErrors_Mutant(op, leftType, rightType, leftIsIdentifier) == <<>>

\* the errors that visit(BinaryExpression) records for the operator op, once
\* the operands are visited
binaryErrors(op, leftType, rightType, leftIsIdentifier) ==
    CASE op = "=" ->
            (IF leftIsIdentifier THEN <<>> ELSE <<"Left side of assignment must be a variable">>)
            \o (IF isTypeCompatible(leftType, rightType) THEN <<>>
                ELSE <<"Cannot assign " \o dataTypeToString(rightType) \o " to "
                            \o dataTypeToString(leftType)>>)
      [] op \in {"+", "-", "*", "/", "%"} ->
            IF op = "+" /\ (leftType = "STR" \/ rightType = "STR") THEN <<>>
            ELSE IF ~isNumericType(leftType) \/ ~isNumericType(rightType)
            THEN <<"Operator '" \o op \o "' requires numeric operands">>
            ELSE <<>>
      [] op \in {"==", "!=", "<", ">", "<=", ">="} ->
            IF ~isTypeCompatible(leftType, rightType) /\ ~isTypeCompatible(rightType, leftType)
            THEN <<"Cannot compare " \o dataTypeToString(leftType) \o " and "
                       \o dataTypeToString(rightType)>>
            ELSE <<>>
      [] op \in {"&&", "||"} ->
            IF leftType # "BOOL" \/ rightType # "BOOL"
            THEN <<"Logical operators require boolean operands">>
            ELSE <<>>
      [] OTHER -> <<"Unknown operator: " \o op>>

\* error(msg) for each message in turn
errorEach(a, msgs) ==
    IF msgs = <<>> THEN a
    ELSE [a EXCEPT !.errors = @ \o msgs, !.hasError = TRUE]

\* SemanticAnalyzer::visit(BinaryExpression)
saVisitBinaryExpression(a, e) ==
    LET a1 == saAccept(a, e.kids[1])
        leftType == getCurrentType(a1)
        a2 == saAccept(popType(a1), e.kids[2])
        rightType == getCurrentType(a2)
        a3 == popType(a2)
    IN pushType(errorEach(a3, binaryErrors(e.s, leftType, rightType,
                                           e.kids[1].k = "Identifier")),
                binaryResultType(e.s, leftType, rightType))

\* SemanticAnalyzer::visit(UnaryExpression): the operand's type stays on
\* the stack
saVisitUnaryExpression(a, e) ==
    LET a1 == saAccept(a, e.kids[1])
        operandType == getCurrentType(a1)
    IN CASE e.s \in {"-", "+"} ->
              pushType(IF isNumericType(operandType) THEN a1
                       ELSE error(a1, "Unary operator '" \o e.s \o "' requires numeric operand"),
                       operandType)
         [] e.s = "!" ->
              pushType(IF operandType = "BOOL" THEN a1
                       ELSE error(a1, "Logical not '!' requires boolean operand"),
                       "BOOL")
         [] OTHER -> pushType(error(a1, "Unknown unary operator: " \o e.s), "UNKNOWN")

\* the fullName that visit(FunctionCall) looks up
calleeFullName(a, callee) ==
    CASE callee.k = "Identifier" -> a.currentModule \o "." \o callee.s
      [] callee.k = "MemberAccess" /\ callee.kids[1].k = "Identifier" ->
            callee.kids[1].s \o "." \o callee.s
      [] OTHER -> a.currentModule \o "."

RECURSIVE saAcceptArguments(_, _, _)

\* for (arg : arguments) { arg->accept(this); typeStack.pop(); }, from the
\* i-th kid on
saAcceptArguments(a, kids, i) ==
    IF i > Len(kids) THEN a
    ELSE saAcceptArguments(popType(saAccept(a, kids[i])), kids, i + 1)

\* SemanticAnalyzer::visit(FunctionCall)
saVisitFunctionCall(a, e) ==
    LET fullName == calleeFullName(a, e.kids[1])
        sym == lookupSymbol(a.scopes, fullName)
    IN IF sym = NoSymbol
       THEN pushType(error(a, "Undeclared function: '" \o fullName \o "'"), "UNKNOWN")
       ELSE pushType(saAcceptArguments(a, e.kids, 2), sym.dataType)

\* SemanticAnalyzer::visit(MemberAccess)
saVisitMemberAccess(a, e) ==
    LET a1 == popType(saAccept(a, e.kids[1]))
        sym == lookupSymbol(a1.scopes, e.kids[1].s \o "." \o e.s)
    IN IF e.kids[1].k = "Identifier"
       THEN IF sym = NoSymbol
            THEN pushType(error(a1, "Module '" \o e.kids[1].s \o "' has no member '"
                                        \o e.s \o "'"), "UNKNOWN")
            ELSE pushType(a1, sym.dataType)
       ELSE pushType(error(a1, "Member access left side must be an identifier"), "UNKNOWN")

RECURSIVE saRangeArguments(_, _, _)

\* the loop of visit(RangeExpression), from the i-th argument on
saRangeArguments(a, exprs, i) ==
    IF i > Len(exprs) THEN a
    ELSE LET a1 == saAccept(a, exprs[i])
             argType == getCurrentType(a1)
         IN saRangeArguments(IF isNumericType(argType) THEN popType(a1)
                             ELSE error(popType(a1), "Range arguments must be numeric"),
                             exprs, i + 1)

\* SemanticAnalyzer::visit(RangeExpression)
saVisitRangeExpression(a, e) == pushType(saRangeArguments(a, e.kids, 1), "INT")

\* SemanticAnalyzer::visit(ArrayIndex)
saVisitArrayIndex(a, e) ==
    LET a1 == saAccept(a, e.kids[1])
        arrayType == getCurrentType(a1)
        a2 == saAccept(popType(a1), e.kids[2])
        indexType == getCurrentType(a2)
    IN pushType(IF indexType = "INT" THEN popType(a2)
                ELSE error(popType(a2), "Array index must be integer"),
                arrayType)

\* e->accept(analyzer) for an expression e
saAccept(a, e) ==
    CASE e.k = "Identifier" -> saVisitIdentifier(a, e)
      [] e.k = "NumberLiteral" -> saVisitNumberLiteral(a, e)
      [] e.k = "StringLiteral" -> pushType(a, "STR")
      [] e.k = "BooleanLiteral" -> pushType(a, "BOOL")
      [] e.k = "FormatString" -> saVisitFormatString(a, e)
      [] e.k = "BinaryExpression" -> saVisitBinaryExpression(a, e)
      [] e.k = "UnaryExpression" -> saVisitUnaryExpression(a, e)
      [] e.k = "FunctionCall" -> saVisitFunctionCall(a, e)
      [] e.k = "MemberAccess" -> saVisitMemberAccess(a, e)
      [] e.k = "RangeExpression" -> saVisitRangeExpression(a, e)
      [] e.k = "GroupedExpression" -> saAccept(a, e.kids[1])
      [] e.k = "ArrayIndex" -> saVisitArrayIndex(a, e)
      [] OTHER -> a

----------------------------------------------------------------------------
(* SemanticAnalyzer::analyze, one visit of a statement at a time.  todo     *)
(* holds what the visits under way have still to do: the statements to      *)
(* accept and, after the statements of a function, a block or a loop, the   *)
(* rest of that visit.                                                      *)

\* the function context a visit(Function) saves and restores
Context(function, returnType, hasReturn) ==
    [function |-> function, returnType |-> returnType, hasReturn |-> hasReturn]

NoContext == Context("", "NONE", FALSE)

Item(kind, node, ctx) == [kind |-> kind, node |-> node, ctx |-> ctx]

\* stmt->accept(this), for the statements that are there
AcceptItems(stmts) ==
    LET present == SelectSeq(stmts, LAMBDA s : s.k # "Nil")
    IN [i \in 1..Len(present) |-> Item("accept", present[i], NoContext)]

\* the analyzer is in the visit of a node of kind k
Visiting(k) ==
    /\ verdict = "pending"
    /\ todo # <<>>
    /\ todo[1].kind = "accept"
    /\ todo[1].node.k = k

\* the analyzer is at the rest of a visit
Resuming(kind) ==
    /\ verdict = "pending"
    /\ todo # <<>>
    /\ todo[1].kind = kind

\* the visit leaves the analyzer a and has the items still to do
Visited(a, items) ==
    /\ sa' = a
    /\ todo' = items \o Tail(todo)
    /\ visited' = [item |-> todo[1], sa |-> sa, todo |-> todo]
    /\ UNCHANGED <<program, verdict, vmVars, poolVars, parserVars, interpreterVars, mainVars>>

\* SemanticAnalyzer::analyze up to program->accept(this)
declareBuiltins(scopes) ==
    LET s1 == envDeclareModule(envDeclareModule(scopes, "__builtins__"), "io")
        s2 == envDeclareFunction(s1, "range", "INT", "__builtins__")
        s3 == envDeclareFunction(s2, "print", "NONE", "__builtins__")
        s4 == envDeclareFunction(s3, "len", "INT", "__builtins__")
        s5 == envDeclareFunction(s4, "print", "NONE", "io")
        s6 == envDeclareFunction(s5, "scan", "STR", "io")
    IN envDeclareFunction(s6, "read", "STR", "io")

Analyze ==
    /\ verdict = "constructed"
    /\ sa' = [sa EXCEPT !.scopes = declareBuiltins(@)]
    /\ todo' = <<Item("accept", program, NoContext)>>
    /\ verdict' = "pending"
    /\ visited' = [item |-> Item("analyze", program, NoContext), sa |-> sa, todo |-> todo]
    /\ UNCHANGED <<program, vmVars, poolVars, parserVars, interpreterVars, mainVars>>

\* return !hasError
AnalyzeReturn ==
    /\ verdict = "pending"
    /\ todo = <<>>
    /\ verdict' = IF sa.hasError THEN "failed" ELSE "passed"
    /\ visited' = [item |-> Item("return", program, NoContext), sa |-> sa, todo |-> todo]
    /\ UNCHANGED <<program, sa, todo, vmVars, poolVars, parserVars, interpreterVars, mainVars>>

VisitProgram ==
    /\ Visiting("Program")
    /\ Visited(sa, AcceptItems(todo[1].node.kids))

VisitModuleStatement ==
    /\ Visiting("ModuleStatement")
    /\ Visited([sa EXCEPT !.scopes = envDeclareModule(@, todo[1].node.s),
                          !.currentModule = todo[1].node.s], <<>>)

VisitImportStatement ==
    /\ Visiting("ImportStatement")
    /\ Visited(IF todo[1].node.s \notin {"io", "__builtins__"}
               THEN error(sa, "Unknown module: '" \o todo[1].node.s \o "'")
               ELSE sa, <<>>)

\* SemanticAnalyzer::visit(Parameter)
saVisitParameter(a, param) ==
    LET a1 == getDataTypeFromAST(a, param.s2)
    IN [a1 EXCEPT !.scopes = envDeclareVariable(@, param.s, dataTypeFromAST(param.s2))]

RECURSIVE saAcceptParameters(_, _, _)

\* for (param : parameters) param->accept(this), from the i-th kid on
saAcceptParameters(a, kids, i) ==
    IF i > Len(kids) THEN a
    ELSE saAcceptParameters(saVisitParameter(a, kids[i]), kids, i + 1)

\* visit(Function) up to the body
VisitFunction ==
    /\ Visiting("Function")
    /\ LET fn == todo[1].node
           returnType == IF fn.s2 # "" THEN dataTypeFromAST(fn.s2) ELSE "NONE"
           a1 == getDataTypeFromAST(sa, fn.s2)
           a2 == [a1 EXCEPT !.scopes = enterScope(envDeclareFunction(@, fn.s, returnType,
                                                                     sa.currentModule)),
                            !.currentFunction = fn.s,
                            !.currentFunctionReturnType = returnType,
                            !.hasReturnStatement = FALSE]
       IN IF ~canDeclareFunction(a1.scopes, fn.s, sa.currentModule)
          THEN Visited(error(a1, "Failed to declare function '" \o sa.currentModule \o "."
                                     \o fn.s \o "'"), <<>>)
          ELSE Visited(saAcceptParameters(a2, fn.kids, 2),
                       AcceptItems(<<fn.kids[1]>>)
                         \o <<Item("endFunction", fn,
                                   Context(sa.currentFunction, sa.currentFunctionReturnType,
                                           sa.hasReturnStatement))>>)

\* visit(Function) after the body
EndFunction ==
    /\ Resuming("endFunction")
    /\ LET fn == todo[1].node
           returnType == IF fn.s2 # "" THEN dataTypeFromAST(fn.s2) ELSE "NONE"
           a1 == IF returnType # "NONE" /\ ~sa.hasReturnStatement
                 THEN error(sa, "Function '" \o fn.s \o "' must return a value of type "
                                    \o dataTypeToString(returnType))
                 ELSE sa
       IN Visited([a1 EXCEPT !.scopes = exitScope(@),
                             !.currentFunction = todo[1].ctx.function,
                             !.currentFunctionReturnType = todo[1].ctx.returnType,
                             !.hasReturnStatement = todo[1].ctx.hasReturn], <<>>)

\* visit(Block) up to the statements
VisitBlock ==
    /\ Visiting("Block")
    /\ Visited([sa EXCEPT !.scopes = enterScope(@)],
               AcceptItems(todo[1].node.kids) \o <<Item("endBlock", todo[1].node, NoContext)>>)

\* visit(Block) after the statements
EndBlock ==
    /\ Resuming("endBlock")
    /\ Visited([sa EXCEPT !.scopes = exitScope(@)], <<>>)

\* SemanticAnalyzer::visit(Declaration)
saVisitDeclaration(a, decl) ==
    LET typeName == typeNameOf(decl.kids[1])
        declaredType == dataTypeFromAST(typeName)
        a1 == getDataTypeFromAST(a, typeName)
        a2 == [a1 EXCEPT !.scopes = envDeclareVariable(@, decl.s, declaredType)]
        a3 == saAccept(a2, decl.kids[2])
    IN IF ~canDeclareVariable(a1.scopes, decl.s)
       THEN error(a1, "Failed to declare variable '" \o decl.s \o "'")
       ELSE IF decl.kids[2].k # "Nil"
       THEN checkTypeCompatibility(a3, declaredType, getCurrentType(a3),
                                   "variable '" \o decl.s \o "' initialization")
       ELSE a2

VisitDeclaration ==
    /\ Visiting("Declaration")
    /\ Visited(saVisitDeclaration(sa, todo[1].node), <<>>)

\* visit(IfStatement): the condition, then the branches
VisitIfStatement ==
    /\ Visiting("IfStatement")
    /\ LET a1 == saAccept(sa, todo[1].node.kids[1])
           condType == getCurrentType(a1)
       IN Visited(IF condType # "BOOL" /\ ~isNumericType(condType)
                  THEN error(a1, "If condition must be boolean or numeric type")
                  ELSE a1,
                  AcceptItems(<<todo[1].node.kids[2], todo[1].node.kids[3]>>))

\* visit(WhileStatement) up to the body
VisitWhileStatement ==
    /\ Visiting("WhileStatement")
    /\ LET a1 == saAccept(sa, todo[1].node.kids[1])
           condType == getCurrentType(a1)
           a2 == IF condType # "BOOL" /\ ~isNumericType(condType)
                 THEN error(a1, "While condition must be boolean or numeric type")
                 ELSE a1
       IN Visited([a2 EXCEPT !.loopDepth = @ + 1],
                  AcceptItems(<<todo[1].node.kids[2]>>)
                    \o <<Item("endWhile", todo[1].node, NoContext)>>)

EndWhile_Mutant ==
    /\ Resuming("endWhile")
    /\ Visited(sa, <<>>)

\* visit(WhileStatement) after the body
EndWhile ==
    /\ Resuming("endWhile")
    /\ Visited([sa EXCEPT !.loopDepth = @ - 1], <<>>)

\* visit(ForStatement) up to the body
VisitForStatement ==
    /\ Visiting("ForStatement")
    /\ LET a1 == [sa EXCEPT !.scopes = envDeclareVariable(enterScope(@), todo[1].node.s, "INT")]
           a2 == saAccept(a1, todo[1].node.kids[1])
           a3 == IF todo[1].node.kids[1].k = "Nil" THEN a1
                 ELSE IF getCurrentType(a2) # "INT"
                 THEN error(a2, "For loop iterable must be range expression")
                 ELSE a2
       IN Visited([a3 EXCEPT !.loopDepth = @ + 1],
                  AcceptItems(<<todo[1].node.kids[2]>>)
                    \o <<Item("endFor", todo[1].node, NoContext)>>)

\* visit(ForStatement) after the body
EndFor ==
    /\ Resuming("endFor")
    /\ Visited([sa EXCEPT !.loopDepth = @ - 1, !.scopes = exitScope(@)], <<>>)

\* SemanticAnalyzer::visit(ReturnStatement)
saVisitReturnStatement(a, ret) ==
    LET a1 == [a EXCEPT !.hasReturnStatement = TRUE]
        a2 == saAccept(a1, ret.kids[1])
    IN IF a1.currentFunction = "" THEN error(a1, "Return statement outside function")
       ELSE IF ret.kids[1].k = "Nil"
       THEN IF a1.currentFunctionReturnType # "NONE"
            THEN error(a1, "Function '" \o a1.currentFunction \o "' expects return type "
                               \o dataTypeToString(a1.currentFunctionReturnType)
                               \o ", but got none")
            ELSE a1
       ELSE checkTypeCompatibility(a2, a2.currentFunctionReturnType, getCurrentType(a2),
                                   "function '" \o a2.currentFunction \o "' return")

VisitReturnStatement ==
    /\ Visiting("ReturnStatement")
    /\ Visited(saVisitReturnStatement(sa, todo[1].node), <<>>)

VisitBreakStatement ==
    /\ Visiting("BreakStatement")
    /\ Visited(IF sa.loopDepth = 0 THEN error(sa, "Break statement outside loop") ELSE sa, <<>>)

VisitContinueStatement ==
    /\ Visiting("ContinueStatement")
    /\ Visited(IF sa.loopDepth = 0 THEN error(sa, "Continue statement outside loop") ELSE sa,
               <<>>)

VisitExpressionStatement ==
    /\ Visiting("ExpressionStatement")
    /\ Visited(saAccept(sa, todo[1].node.kids[1]), <<>>)

----------------------------------------------------------------------------
(* AST::ASTBuilder, the parser.  b is the builder: the token buffer, the    *)
(* position in it (from 0), the error flag and message; errorAt is the      *)
(* position of the token at which the first error was logged.  A parse      *)
(* function gives the builder afterwards and the node it returns (Nil for   *)
(* nullptr).                                                                *)

Token(type, value) == [type |-> type, value |-> value]

eofToken == Token("END_OF_FILE", "")

\* a builder whose buffer holds the tokens, before build
newBuilder(tokens) ==
    [tokens |-> tokens, currentPosition |-> 0, errorOccurred |-> FALSE, errorMessage |-> "",
     errorAt |-> -1, statements |-> <<>>, built |-> FALSE]

\* ASTBuilder::currentToken
currentToken(b) ==
    IF b.currentPosition >= Len(b.tokens) THEN eofToken ELSE b.tokens[b.currentPosition + 1]

\* ASTBuilder::peekNextToken
peekNextToken(b) ==
    IF b.currentPosition + 1 >= Len(b.tokens) THEN eofToken
    ELSE b.tokens[b.currentPosition + 2]

\* ASTBuilder::advance
advance(b) ==
    IF b.currentPosition < Len(b.tokens) THEN [b EXCEPT !.currentPosition = @ + 1] ELSE b

\* ASTBuilder::match
match(b, type) == currentToken(b).type = type

\* ASTBuilder::matchValue
matchValue(b, value) == currentToken(b).value = value

RECURSIVE consumeEndOfLine(_)

\* ASTBuilder::consumeEndOfLine
consumeEndOfLine(b) ==
    IF match(b, "END_OF_LINE") THEN consumeEndOfLine(advance(b)) ELSE b

\* ASTBuilder::logError
logError(b, message) ==
    [b EXCEPT !.errorOccurred = TRUE, !.errorMessage = message,
              !.errorAt = IF b.errorOccurred THEN @ ELSE b.currentPosition]

\* ASTBuilder::consumeValue: the builder afterwards
consumeValue(b, value, message) ==
    IF matchValue(b, value) THEN advance(b) ELSE logError(b, message)

\* what a parse function returns, and the builder it leaves
Parsed(b, nd) == [b |-> b, node |-> nd]

\* std::stod of the lexeme of a NUMBER token, as a multiple of 1 / FloatDen
stod(lexeme) ==
    CASE lexeme = "0" -> 0
      [] lexeme = "1" -> FloatDen
      [] lexeme = "2" -> 2 * FloatDen
      [] lexeme = "0.5" /\ FloatDen % 2 = 0 -> FloatDen \div 2
      [] OTHER -> 0

\* F of the value v, with v computed once
With(v, F(_)) == CHOOSE y \in {F(x) : x \in {v}} : TRUE

RECURSIVE parseExpression(_)

RECURSIVE argumentLoop(_, _)

\* the do ... while of ASTBuilder::parseArgumentList
argumentLoop(b, args) ==
    With(parseExpression(b), LAMBDA r :
        LET args2 == IF r.node # Nil THEN Append(args, r.node) ELSE args
            b2 == advance(r.b)
        IN IF matchValue(r.b, ",")
           THEN IF ~matchValue(b2, ")") /\ ~b2.errorOccurred
                THEN argumentLoop(b2, args2)
                ELSE [b |-> b2, nodes |-> args2]
           ELSE [b |-> r.b, nodes |-> args2])

\* ASTBuilder::parseArgumentList
parseArgumentList(b) ==
    IF ~matchValue(b, ")") THEN argumentLoop(b, <<>>) ELSE [b |-> b, nodes |-> <<>>]

\* ASTBuilder::parseFunctionCall
parseFunctionCall(b, callee) ==
    With(parseArgumentList(consumeValue(b, "(", "Expected '(' in function call")), LAMBDA r :
        Parsed(consumeValue(r.b, ")", "Expected ')' after arguments"),
               FunctionCall(callee, r.nodes)))

\* ASTBuilder::parsePrimary, for the tokens of the alphabet below and the
\* parenthesis; the alphabet has no STRING, no FORMAT_STRING, no true or false
parsePrimary(b) ==
    CASE match(b, "IDENTIFIER") -> Parsed(advance(b), Identifier(currentToken(b).value))
      [] match(b, "NUMBER") -> Parsed(advance(b), NumberLiteral(stod(currentToken(b).value)))
      [] ~match(b, "IDENTIFIER") /\ ~match(b, "NUMBER") /\ matchValue(b, "(") ->
            With(parseExpression(advance(b)), LAMBDA r :
                Parsed(consumeValue(r.b, ")", "Expected ')' after expression"),
                       GroupedExpression(r.node)))
      [] OTHER ->
            Parsed(logError(b, "Unexpected token in expression: " \o currentToken(b).value), Nil)

RECURSIVE postfixLoop(_, _)

\* the while (true) of ASTBuilder::parsePostfix
postfixLoop(b, expr) ==
    IF matchValue(b, ".")
    THEN IF ~match(advance(b), "IDENTIFIER")
         THEN Parsed(logError(advance(b), "Expected identifier after '.'"), expr)
         ELSE postfixLoop(advance(advance(b)), MemberAccess(expr, currentToken(advance(b)).value))
    ELSE IF matchValue(b, "(")
    THEN With(parseFunctionCall(b, expr), LAMBDA r : postfixLoop(r.b, r.node))
    ELSE Parsed(b, expr)

\* ASTBuilder::parsePostfix
parsePostfix(b) == With(parsePrimary(b), LAMBDA r : postfixLoop(r.b, r.node))

RECURSIVE parseUnary(_)

\* ASTBuilder::parseUnary
parseUnary(b) ==
    IF matchValue(b, "!") \/ matchValue(b, "-") \/ matchValue(b, "+")
    THEN With(parseUnary(advance(b)), LAMBDA r :
             Parsed(r.b, UnaryExpression(currentToken(b).value, r.node)))
    ELSE parsePostfix(b)

\* the operators of parseLogicalOr, parseLogicalAnd, parseEquality,
\* parseComparison, parseAdditive and parseMultiplicative
LevelOperators ==
    <<{"||"}, {"&&"}, {"==", "!="}, {"<", "<=", ">", ">="}, {"+", "-"}, {"*", "/", "%"}>>

RECURSIVE parseLevel(_, _)

RECURSIVE levelLoop(_, _, _)

\* the operand of a level: the next level, parseUnary for the last
parseOperand(b, lv) == IF lv = Len(LevelOperators) THEN parseUnary(b) ELSE parseLevel(b, lv + 1)

\* while (matchValue(op) ...) of the level lv
levelLoop(b, expr, lv) ==
    IF currentToken(b).value \in LevelOperators[lv]
    THEN With(parseOperand(advance(b), lv), LAMBDA r :
             levelLoop(r.b, BinaryExpression(expr, currentToken(b).value, r.node), lv))
    ELSE Parsed(b, expr)

\* ASTBuilder::parseLogicalOr (lv = 1) ... ASTBuilder::parseMultiplicative
\* (lv = 6)
parseLevel(b, lv) == With(parseOperand(b, lv), LAMBDA r : levelLoop(r.b, r.node, lv))

RECURSIVE parseAssignment(_)

\* ASTBuilder::parseAssignment
parseAssignment(b) ==
    With(parseLevel(b, 1), LAMBDA l :
        IF matchValue(l.b, "=")
        THEN With(parseAssignment(advance(l.b)), LAMBDA r :
                 Parsed(r.b, BinaryExpression(l.node, "=", r.node)))
        ELSE l)

\* ASTBuilder::parseExpression
parseExpression(b) == parseAssignment(b)

\* ASTBuilder::parseExpressionStatement
parseExpressionStatement(b) ==
    With(parseExpression(b), LAMBDA r :
        IF r.node # Nil THEN Parsed(consumeEndOfLine(r.b), ExpressionStatement(r.node))
        ELSE Parsed(r.b, Nil))

\* ASTBuilder::parseReturnStatement
parseReturnStatement(b) ==
    IF ~match(advance(b), "END_OF_LINE") /\ ~matchValue(advance(b), "}")
    THEN With(parseExpression(advance(b)), LAMBDA r :
             Parsed(consumeEndOfLine(r.b), ReturnStatement(r.node)))
    ELSE Parsed(consumeEndOfLine(advance(b)), ReturnStatement(Nil))

\* ASTBuilder::parseImport
parseImport(b) ==
    LET b1 == advance(b)
    IN IF ~match(b1, "IDENTIFIER")
       THEN Parsed(logError(b1, "Expected identifier after 'import'"), Nil)
       ELSE Parsed(consumeEndOfLine(advance(b1)), ImportStatement(currentToken(b1).value))

\* the statements whose parse function logs 'not yet implemented'
Unimplemented ==
    [if |-> "If", while |-> "While", break |-> "Break", continue |-> "Continue"]

\* ASTBuilder::parseType
parseType(b) ==
    IF ~match(b, "KEYWORD") /\ ~match(b, "IDENTIFIER")
    THEN Parsed(logError(b, "Expected type name"), Nil)
    ELSE Parsed(advance(b), Type(currentToken(b).value))

\* ASTBuilder::parseDeclaration from the type annotation on; b is at the
\* token after the name
parseDeclarationRest(b, keyword, varName) ==
    With(IF matchValue(b, ":") THEN parseType(advance(b)) ELSE Parsed(b, Nil), LAMBDA ty :
        With(IF matchValue(ty.b, "=") THEN parseExpression(advance(ty.b)) ELSE Parsed(ty.b, Nil),
             LAMBDA init :
                 Parsed(consumeEndOfLine(init.b),
                        Declaration(keyword, varName, ty.node, init.node))))

\* ASTBuilder::parseDeclaration
parseDeclaration(b) ==
    IF ~match(advance(b), "IDENTIFIER")
    THEN Parsed(logError(advance(b), "Expected identifier in declaration"), Nil)
    ELSE parseDeclarationRest(advance(advance(b)), currentToken(b).value,
                              currentToken(advance(b)).value)

\* ASTBuilder::parseStatement, for the keywords of the alphabets below (no
\* func and no for) and every other token
parseStatement(b) ==
    LET tk == currentToken(b)
    IN CASE tk.type = "KEYWORD" /\ tk.value = "import" -> parseImport(b)
         [] tk.type = "KEYWORD" /\ tk.value \in {"var", "let", "const"} -> parseDeclaration(b)
         [] tk.type = "KEYWORD" /\ tk.value = "return" -> parseReturnStatement(b)
         [] tk.type = "KEYWORD" /\ tk.value \in DOMAIN Unimplemented ->
               Parsed(logError(b, Unimplemented[tk.value] \o " statement not yet implemented"),
                      Nil)
         [] tk.type \in {"IDENTIFIER", "NUMBER", "STRING", "FORMAT_STRING"} ->
               parseExpressionStatement(b)
         [] tk.type = "OPERATOR" /\ tk.value \in {"}", ")"} -> Parsed(b, Nil)
         [] OTHER -> Parsed(logError(b, "Unexpected token: " \o tk.value), Nil)

\* the builder where the body of the loop of parseProgram calls
\* parseStatement
AtStatement == consumeEndOfLine(builder)

\* the loop of ASTBuilder::parseProgram goes round once more and reaches
\* parseStatement
LoopRuns ==
    /\ ~builder.built
    /\ ~match(builder, "END_OF_FILE")
    /\ ~builder.errorOccurred
    /\ ~match(AtStatement, "END_OF_FILE")

\* the rest of the body of the loop: the statement is added, or the
\* current token is skipped
StatementParsed(stmt) ==
    /\ builder' = With(stmt, LAMBDA r :
                       IF r.node # Nil
                       THEN [r.b EXCEPT !.statements = Append(@, r.node)]
                       ELSE advance(r.b))
    /\ UNCHANGED <<program, vmVars, poolVars, analyzerVars, interpreterVars, mainVars>>

ParseImport ==
    /\ LoopRuns
    /\ currentToken(AtStatement) = Token("KEYWORD", "import")
    /\ StatementParsed(parseStatement(AtStatement))

ParseDeclaration ==
    /\ LoopRuns
    /\ currentToken(AtStatement).type = "KEYWORD"
    /\ currentToken(AtStatement).value \in {"var", "let", "const"}
    /\ StatementParsed(parseStatement(AtStatement))

ParseReturnStatement ==
    /\ LoopRuns
    /\ currentToken(AtStatement) = Token("KEYWORD", "return")
    /\ StatementParsed(parseStatement(AtStatement))

ParseUnimplemented ==
    /\ LoopRuns
    /\ currentToken(AtStatement).type = "KEYWORD"
    /\ currentToken(AtStatement).value \in DOMAIN Unimplemented
    /\ StatementParsed(parseStatement(AtStatement))

ParseExpressionStatement ==
    /\ LoopRuns
    /\ currentToken(AtStatement).type \in {"IDENTIFIER", "NUMBER", "STRING", "FORMAT_STRING"}
    /\ StatementParsed(parseStatement(AtStatement))

\* a } or a ) where a statement starts: no statement and no error
ParseBlockEnd ==
    /\ LoopRuns
    /\ currentToken(AtStatement).type = "OPERATOR"
    /\ currentToken(AtStatement).value \in {"}", ")"}
    /\ StatementParsed(parseStatement(AtStatement))

\* the keywords that parseStatement has a branch for, of those the
\* alphabets hold
DispatchedKeywords == {"import", "return", "var", "let", "const"} \cup DOMAIN Unimplemented

\* any other token, another keyword included
ParseUnexpected ==
    /\ LoopRuns
    /\ currentToken(AtStatement).type \notin {"IDENTIFIER", "NUMBER", "STRING", "FORMAT_STRING"}
    /\ currentToken(AtStatement).type = "KEYWORD" =>
          currentToken(AtStatement).value \notin DispatchedKeywords
    /\ ~(currentToken(AtStatement).type = "OPERATOR"
           /\ currentToken(AtStatement).value \in {"}", ")"})
    /\ StatementParsed(parseStatement(AtStatement))

\* the loop of parseProgram ends and build returns the Program
BuildReturn ==
    /\ ~builder.built
    /\ ~LoopRuns
    /\ builder' = [(IF match(builder, "END_OF_FILE") \/ builder.errorOccurred
                    THEN builder ELSE AtStatement) EXCEPT !.built = TRUE]
    /\ UNCHANGED <<program, vmVars, poolVars, analyzerVars, interpreterVars, mainVars>>

----------------------------------------------------------------------------
(* interpreter::Interpreter, the tree-walking interpreter that main runs.  *)
(* I is the Interpreter object: the scopes (the global one first), the     *)
(* value stack, the three control flags, returnValue and loopDepth; cout   *)
(* and cerr are what it has written.  thrown: a std::bad_variant_access is *)
(* on its way up to the catch of execute.  fuel: the loop iterations and   *)
(* the calls the model still follows; at 0 the model stops following the   *)
(* execution.  A RuntimeValue of the interpreter has the payloads of the   *)
(* virtual machine's and two more types, FUNCTION and RANGE.  The programs *)
(* interpreted hold no format string and call no builtin but print.        *)

\* the iterations and calls of one execution that the model follows
MaxFuel == 6

\* RuntimeValue(const FunctionValue &): a holds the Function node
FunctionV(node) == [NoneV EXCEPT !.t = "FUNCTION", !.a = <<node>>]

\* RuntimeValue(const RangeData &)
RangeV(start, end, step) == [NoneV EXCEPT !.t = "RANGE", !.a = <<start, end, step>>]

\* Interpreter::Interpreter
newInterpreter ==
    [environments |-> <<EmptyLocals>>, valueStack |-> <<>>, returnFlag |-> FALSE,
     breakFlag |-> FALSE, continueFlag |-> FALSE, returnValue |-> NoneV, loopDepth |-> 0,
     cout |-> <<>>, cerr |-> <<>>, thrown |-> FALSE, fuel |-> MaxFuel]

\* what follows a step that may have thrown: nothing when it has
itUnless(I, F(_)) == With(I, LAMBDA x : IF x.thrown \/ x.fuel = 0 THEN x ELSE F(x))

itTick(I) == [I EXCEPT !.fuel = @ - 1]

itThrow(I) == [I EXCEPT !.thrown = TRUE]

itError(I, msg) == [I EXCEPT !.cerr = Append(@, msg)]

itPush(I, v) == [I EXCEPT !.valueStack = Append(@, v)]

itPop(I) == [I EXCEPT !.valueStack = SubSeq(@, 1, Len(@) - 1)]

itTop(I) == I.valueStack[Len(I.valueStack)]

\* Interpreter::enterScope
itEnterScope(I) == [I EXCEPT !.environments = Append(@, EmptyLocals)]

\* Interpreter::exitScope
itExitScope(I) ==
    IF I.environments # <<>>
    THEN [I EXCEPT !.environments = SubSeq(@, 1, Len(@) - 1)]
    ELSE I

\* Interpreter::declareVariable
itDeclareVariable(I, name, value) ==
    LET envs == IF I.environments = <<>> THEN <<EmptyLocals>> ELSE I.environments
    IN IF name \in DOMAIN envs[Len(envs)]
       THEN itError([I EXCEPT !.environments = envs], "Variable already declared")
       ELSE [I EXCEPT !.environments =
                         [envs EXCEPT ![Len(envs)] = (name :> value) @@ @]]

\* the innermost scope that holds name, 0 when none does
itScopeOf(I, name) ==
    LET holding == {i \in 1..Len(I.environments) : name \in DOMAIN I.environments[i]}
    IN IF holding = {} THEN 0 ELSE CHOOSE i \in holding : \A j \in holding : j <= i

\* Interpreter::setVariable
itSetVariable(I, name, value) ==
    IF itScopeOf(I, name) = 0 THEN itError(I, "Variable not declared")
    ELSE [I EXCEPT !.environments[itScopeOf(I, name)][name] = value]

\* Interpreter::getVariable, for a name that itScopeOf finds
itGetVariable(I, name) == I.environments[itScopeOf(I, name)][name]

\* operator<< of a double, for the doubles of the model
itDoubleToString(f) == IF f < 0 THEN <<"-">> \o FloatToString(0 - f) ELSE FloatToString(f)

\* std::to_string of a double: six decimals
itToStringDouble(f) ==
    LET m == IF f < 0 THEN 0 - f ELSE f
        micro == (m * 1000000 + (FloatDen \div 2)) \div FloatDen
    IN (IF f < 0 THEN <<"-">> ELSE <<>>) \o NatDigits(micro \div 1000000) \o <<".">>
           \o FixedDigits(micro % 1000000, 6)

\* RuntimeValue::toString of the interpreter
itToString(v) ==
    CASE v.t = "INT" -> IntToString(v.n)
      [] v.t = "FLOAT" -> itToStringDouble(v.n)
      [] v.t = "BOOL" -> IF v.b THEN <<"t", "r", "u", "e">> ELSE <<"f", "a", "l", "s", "e">>
      [] v.t = "STRING" -> <<"\"">> \o v.s \o <<"\"">>
      [] v.t = "NONE" -> <<"n", "o", "n", "e">>
      [] v.t = "FUNCTION" -> <<"<function>">>
      [] v.t = "RANGE" -> <<"<range>">>
      [] OTHER -> <<"u", "n", "k", "n", "o", "w", "n">>

\* what print and io.print write for one argument
itPrinted(arg) ==
    CASE arg.t = "INT" -> IntToString(arg.n)
      [] arg.t = "FLOAT" -> itDoubleToString(arg.n)
      [] arg.t = "BOOL" -> IF arg.b THEN <<"t", "r", "u", "e">> ELSE <<"f", "a", "l", "s", "e">>
      [] arg.t = "STRING" -> arg.s
      [] arg.t = "NONE" -> <<"n", "o", "n", "e">>
      [] OTHER -> <<"?">>

RECURSIVE itPrintArgs(_, _)
\* the loop of print over args[i..]; std::endl is not recorded, as for the
\* virtual machine
itPrintArgs(args, i) ==
    IF i > Len(args) THEN <<>>
    ELSE (IF i > 1 THEN <<" ">> ELSE <<>>) \o itPrinted(args[i]) \o itPrintArgs(args, i + 1)

\* a % b of two ints, b # 0: the quotient is truncated towards zero
itRemainder(a, b) ==
    LET m == (IF a < 0 THEN 0 - a ELSE a) % (IF b < 0 THEN 0 - b ELSE b)
    IN IF a < 0 THEN 0 - m ELSE m

\* the bool a condition stands for, in visit(IfStatement) and visit(WhileStatement)
itCondition(cond) ==
    CASE cond.t = "BOOL" -> cond.b
      [] cond.t = "INT" -> cond.n # 0
      [] cond.t = "FLOAT" -> cond.n # 0
      [] OTHER -> FALSE

\* double l = left.isInt() ? left.getInt() : left.getFloat() throws for a value
\* that is neither
itNumeric(v) == isInt(v) \/ isFloat(v)

\* RuntimeValue(double) of the quotient l / r of two doubles, rounded down to a
\* multiple of 1 / FloatDen
itQuotient(l, r) == IF r < 0 THEN ((0 - l) * FloatDen) \div (0 - r) ELSE (l * FloatDen) \div r

\* visit(BinaryExpression) after the two pops, for every operator but "="
itBinary(op, left, right) ==
    LET l == asDouble(left)
        r == asDouble(right)
        arith(v) == IF itNumeric(left) /\ itNumeric(right) THEN Pushes(v, <<>>) ELSE ThrowsError
    IN CASE op = "+" ->
              IF isInt(left) /\ isInt(right) THEN Pushes(IntV(left.n + right.n), <<>>)
              ELSE IF isFloat(left) \/ isFloat(right) THEN arith(FloatV(l + r))
              ELSE IF left.t = "STRING" \/ right.t = "STRING"
              THEN Pushes(StrV(itToString(left) \o itToString(right)), <<>>)
              ELSE Pushes(NoneV, <<"Invalid operands for +">>)
         [] op = "-" -> arith(FloatV(l - r))
         [] op = "*" -> arith(FloatV((l * r) \div FloatDen))
         [] op = "/" ->
              IF ~(itNumeric(left) /\ itNumeric(right)) THEN ThrowsError
              ELSE IF r = 0 THEN Pushes(NoneV, <<"Division by zero">>)
              ELSE Pushes(FloatV(itQuotient(l, r)), <<>>)
         [] op = "%" ->
              IF isInt(left) /\ isInt(right)
              THEN IF right.n = 0 THEN Pushes(NoneV, <<"Modulo by zero">>)
                   ELSE Pushes(IntV(itRemainder(left.n, right.n)), <<>>)
              ELSE Pushes(NoneV, <<"Modulo requires integers">>)
         [] op = "==" ->
              IF left.t # right.t THEN Pushes(BoolV(FALSE), <<>>)
              ELSE CASE left.t \in {"INT", "FLOAT"} -> Pushes(BoolV(left.n = right.n), <<>>)
                     [] left.t = "BOOL" -> Pushes(BoolV(left.b = right.b), <<>>)
                     [] left.t = "STRING" -> Pushes(BoolV(left.s = right.s), <<>>)
                     [] OTHER -> Pushes(BoolV(FALSE), <<>>)
         [] op = "!=" ->
              IF left.t # right.t THEN Pushes(BoolV(TRUE), <<>>)
              ELSE CASE left.t \in {"INT", "FLOAT"} -> Pushes(BoolV(left.n # right.n), <<>>)
                     [] left.t = "BOOL" -> Pushes(BoolV(left.b # right.b), <<>>)
                     [] left.t = "STRING" -> Pushes(BoolV(left.s # right.s), <<>>)
                     [] OTHER -> Pushes(BoolV(TRUE), <<>>)
         [] op = "<" -> arith(BoolV(l < r))
         [] op = "<=" -> arith(BoolV(l <= r))
         [] op = ">" -> arith(BoolV(l > r))
         [] op = ">=" -> arith(BoolV(l >= r))
         [] op \in {"&&", "||"} ->
              IF left.t # "BOOL" \/ right.t # "BOOL"
              THEN Pushes(BoolV(FALSE), <<"&& or || requires boolean operands">>)
              ELSE Pushes(BoolV(IF op = "&&" THEN left.b /\ right.b ELSE left.b \/ right.b), <<>>)
         [] OTHER -> Pushes(NoneV, <<"Unknown operator">>)

\* the interpreter after the push, or the throw, of such a result
itResult(I, r) ==
    IF r.throws THEN itThrow(I)
    ELSE itPush([I EXCEPT !.cerr = @ \o r.errs], r.value)

RECURSIVE itAccept(_, _)
RECURSIVE itStatements(_, _, _, _)
RECURSIVE itArguments(_, _, _, _)
RECURSIVE itRangeArguments(_, _, _, _)
RECURSIVE itWhile(_, _)
RECURSIVE itFor(_, _, _)

\* expr->accept(this), then top and pop of the value stack: what follows is
\* given the interpreter after the pop and the value popped
itEval(I, expr, F(_, _)) == itUnless(itAccept(I, expr), LAMBDA x : F(itPop(x), itTop(x)))

\* the loops of visit(Program) and visit(Block) from statement i on
itStatements(I, stmts, i, inBlock) ==
    IF i > Len(stmts) THEN I
    ELSE itUnless(IF stmts[i].k # "Nil" THEN itAccept(I, stmts[i]) ELSE I,
                  LAMBDA x : IF x.returnFlag \/ (inBlock /\ (x.breakFlag \/ x.continueFlag))
                             THEN x
                             ELSE itStatements(x, stmts, i + 1, inBlock))

itVisitProgram(I, node) == itStatements(I, node.kids, 1, FALSE)

itVisitBlock(I, node) ==
    itUnless(itStatements(itEnterScope(I), node.kids, 1, TRUE), LAMBDA x : itExitScope(x))

itVisitDeclaration(I, node) ==
    IF node.kids[2].k # "Nil"
    THEN itEval(I, node.kids[2], LAMBDA x, value : itDeclareVariable(x, node.s, value))
    ELSE itDeclareVariable(I, node.s, NoneV)

itVisitExpressionStatement(I, node) ==
    IF node.kids[1].k # "Nil" THEN itEval(I, node.kids[1], LAMBDA x, value : x) ELSE I

itVisitNumberLiteral(I, node) ==
    IF node.n % FloatDen = 0 THEN itPush(I, IntV(node.n \div FloatDen))
    ELSE itPush(I, FloatV(node.n))

itVisitIdentifier(I, node) ==
    IF itScopeOf(I, node.s) # 0 THEN itPush(I, itGetVariable(I, node.s))
    ELSE itPush(itError(I, "Undefined variable"), NoneV)

itVisitBinaryExpression(I, node) ==
    IF node.s = "="
    THEN IF node.kids[1].k # "Identifier"
         THEN itPush(itError(I, "Left side of assignment must be identifier"), NoneV)
         ELSE itEval(I, node.kids[2],
                     LAMBDA x, val : itPush(itSetVariable(x, node.kids[1].s, val), val))
    ELSE itUnless(itAccept(I, node.kids[1]),
                  LAMBDA x : itEval(x, node.kids[2],
                                    LAMBDA y, right :
                                        itResult(itPop(y), itBinary(node.s, itTop(y), right))))

itVisitUnaryExpression(I, node) ==
    itEval(I, node.kids[1],
           LAMBDA x, val :
               CASE node.s = "-" ->
                      IF isInt(val) THEN itPush(x, IntV(0 - val.n))
                      ELSE IF isFloat(val) THEN itPush(x, FloatV(0 - val.n))
                      ELSE itPush(itError(x, "Cannot negate non-numeric value"), val)
                 [] node.s = "!" ->
                      itPush(x, BoolV(IF val.t = "BOOL" THEN ~val.b ELSE FALSE))
                 [] OTHER -> itPush(x, val))

itVisitIfStatement(I, node) ==
    itEval(I, node.kids[1],
           LAMBDA x, cond :
               IF itCondition(cond)
               THEN IF node.kids[2].k # "Nil" THEN itAccept(x, node.kids[2]) ELSE x
               ELSE IF node.kids[3].k # "Nil" THEN itAccept(x, node.kids[3]) ELSE x)

\* while (true) of visit(WhileStatement), from the evaluation of the condition
itWhile(I, node) ==
    itEval(I, node.kids[1],
           LAMBDA x, cond :
               IF ~itCondition(cond) THEN x
               ELSE itUnless(IF node.kids[2].k # "Nil" THEN itAccept(x, node.kids[2]) ELSE x,
                             LAMBDA y :
                                 IF y.breakFlag THEN [y EXCEPT !.breakFlag = FALSE]
                                 ELSE IF y.returnFlag THEN y
                                 ELSE itWhile(itTick([y EXCEPT !.continueFlag = FALSE]), node)))

itVisitWhileStatement(I, node) ==
    itUnless(itWhile([I EXCEPT !.loopDepth = @ + 1], node),
             LAMBDA x : [x EXCEPT !.loopDepth = @ - 1])

\* while (true) of visit(ForStatement), from getVariable(loopVar); range is
\* start, end, step
itFor(I, node, range) ==
    IF itScopeOf(I, node.s) = 0 \/ ~isInt(itGetVariable(I, node.s)) THEN I
    ELSE LET current == itGetVariable(I, node.s).n
         IN IF (range[3] > 0 /\ current >= range[2]) \/ (range[3] <= 0 /\ current <= range[2])
            THEN I
            ELSE itUnless(
                   IF node.kids[2].k # "Nil" THEN itAccept(I, node.kids[2]) ELSE I,
                   LAMBDA y :
                       IF y.breakFlag THEN [y EXCEPT !.breakFlag = FALSE]
                       ELSE IF y.returnFlag THEN y
                       ELSE itFor(itTick([itSetVariable(y, node.s, IntV(current + range[3]))
                                             EXCEPT !.continueFlag = FALSE]),
                                  node, range))

itVisitForStatement(I, node) ==
    itEval(I, node.kids[1],
           LAMBDA x, rangeVal :
               IF rangeVal.t # "RANGE" THEN itError(x, "For loop requires range expression")
               ELSE itUnless(
                      itFor([itDeclareVariable(itEnterScope(x), node.s, IntV(rangeVal.a[1]))
                                EXCEPT !.loopDepth = @ + 1],
                            node, rangeVal.a),
                      LAMBDA y : itExitScope([y EXCEPT !.loopDepth = @ - 1])))

itVisitReturnStatement(I, node) ==
    IF node.kids[1].k # "Nil"
    THEN itEval(I, node.kids[1],
                LAMBDA x, value : [x EXCEPT !.returnValue = value, !.returnFlag = TRUE])
    ELSE [I EXCEPT !.returnValue = NoneV, !.returnFlag = TRUE]

itVisitBreakStatement(I, node) ==
    IF I.loopDepth > 0 THEN [I EXCEPT !.breakFlag = TRUE]
    ELSE itError(I, "break outside loop")

itVisitContinueStatement(I, node) ==
    IF I.loopDepth > 0 THEN [I EXCEPT !.continueFlag = TRUE]
    ELSE itError(I, "continue outside loop")

\* the loop of visit(RangeExpression) from argument i on; args are the ints so far
itRangeArguments(I, nodes, i, args) ==
    IF i > Len(nodes)
    THEN IF Len(args) < 2 \/ Len(args) > 3
         THEN itPush(itError(I, "range() expects 2 or 3 arguments"), NoneV)
         ELSE IF Len(args) = 3 /\ args[3] = 0
         THEN itPush(itError(I, "range() step cannot be zero"), NoneV)
         ELSE itPush(I, RangeV(args[1], args[2], IF Len(args) = 3 THEN args[3] ELSE 1))
    ELSE itEval(I, nodes[i],
                LAMBDA x, val :
                    IF ~isInt(val)
                    THEN itPush(itError(x, "Range arguments must be integers"), NoneV)
                    ELSE itRangeArguments(x, nodes, i + 1, Append(args, val.n)))

itVisitRangeExpression(I, node) == itRangeArguments(I, node.kids, 1, <<>>)

itVisitArrayIndex(I, node) ==
    itEval(I, node.kids[1],
           LAMBDA x, arrayVal :
               itEval(x, node.kids[2],
                      LAMBDA y, indexVal :
                          IF ~isInt(indexVal)
                          THEN itPush(itError(y, "Array index must be integer"), NoneV)
                          ELSE IF arrayVal.t = "STRING"
                          THEN itPush(y, StrV(<<"array[">> \o IntToString(indexVal.n) \o <<"]">>))
                          ELSE itPush(itError(y, "Cannot index non-array value"), NoneV)))

itVisitMemberAccess(I, node) ==
    itEval(I, node.kids[1],
           LAMBDA x, objVal :
               IF node.kids[1].k = "Identifier" /\ node.kids[1].s = "io"
               THEN itPush(x, StrV(<<"io." \o node.s>>))
               ELSE itPush(itError(x, "Member access not supported for this type"), NoneV))

\* the name visit(FunctionCall) looks the callee up by
itFuncName(callee) ==
    CASE callee.k = "Identifier" -> callee.s
      [] callee.k = "MemberAccess" /\ callee.kids[1].k = "Identifier" ->
           callee.kids[1].s \o "." \o callee.s
      [] OTHER -> ""

\* the call of a user-defined function: the parameters bound in a new scope,
\* the body, the return value taken, the scopes of the caller restored
itCallFunction(I, func, args) ==
    LET params == SubSeq(func.kids, 2, Len(func.kids))
        bound[i \in 0..Len(params)] ==
            IF i = 0 THEN itEnterScope(I)
            ELSE itDeclareVariable(bound[i - 1], params[i].s,
                                   IF i <= Len(args) THEN args[i] ELSE NoneV)
    IN itUnless(IF func.kids[1].k # "Nil" THEN itAccept(itTick(bound[Len(params)]), func.kids[1])
                ELSE bound[Len(params)],
                LAMBDA x :
                    itPush([x EXCEPT !.returnFlag = FALSE,
                                     !.returnValue = NoneV,
                                     !.environments =
                                         SubSeq(@, 1, IF Len(@) > Len(I.environments)
                                                      THEN Len(I.environments) ELSE Len(@))],
                           IF x.returnFlag THEN x.returnValue ELSE NoneV))

\* visit(FunctionCall) from argument i on (nodes[1] is the callee); args are
\* the values so far
itArguments(I, node, i, args) ==
    IF i <= Len(node.kids)
    THEN itEval(I, node.kids[i], LAMBDA x, val : itArguments(x, node, i + 1, Append(args, val)))
    ELSE LET funcName == itFuncName(node.kids[1])
         IN IF funcName \in {"print", "io.print"}
            THEN itPush([I EXCEPT !.cout = @ \o itPrintArgs(args, 1)], NoneV)
            ELSE IF itScopeOf(I, funcName) = 0 \/ itGetVariable(I, funcName).t # "FUNCTION"
            THEN itPush(itError(I, "Function not defined"), NoneV)
            ELSE itCallFunction(I, itGetVariable(I, funcName).a[1], args)

itVisitFunctionCall(I, node) == itArguments(I, node, 2, <<>>)

\* visit(Function): the function is stored in the global scope
itVisitFunction(I, node) ==
    LET envs == IF I.environments = <<>> THEN <<EmptyLocals>> ELSE I.environments
    IN [I EXCEPT !.environments = [envs EXCEPT ![1] = (node.s :> FunctionV(node)) @@ @]]

\* node->accept(this)
itAccept(I, node) ==
    itUnless(I, LAMBDA x :
        CASE node.k = "Program" -> itVisitProgram(x, node)
          [] node.k = "Block" -> itVisitBlock(x, node)
          [] node.k = "Declaration" -> itVisitDeclaration(x, node)
          [] node.k = "ExpressionStatement" -> itVisitExpressionStatement(x, node)
          [] node.k = "NumberLiteral" -> itVisitNumberLiteral(x, node)
          [] node.k = "StringLiteral" -> itPush(x, StrV(node.str))
          [] node.k = "BooleanLiteral" -> itPush(x, BoolV(node.n = 1))
          [] node.k = "Identifier" -> itVisitIdentifier(x, node)
          [] node.k = "BinaryExpression" -> itVisitBinaryExpression(x, node)
          [] node.k = "UnaryExpression" -> itVisitUnaryExpression(x, node)
          [] node.k = "IfStatement" -> itVisitIfStatement(x, node)
          [] node.k = "WhileStatement" -> itVisitWhileStatement(x, node)
          [] node.k = "ForStatement" -> itVisitForStatement(x, node)
          [] node.k = "ReturnStatement" -> itVisitReturnStatement(x, node)
          [] node.k = "BreakStatement" -> itVisitBreakStatement(x, node)
          [] node.k = "ContinueStatement" -> itVisitContinueStatement(x, node)
          [] node.k = "RangeExpression" -> itVisitRangeExpression(x, node)
          [] node.k = "ArrayIndex" -> itVisitArrayIndex(x, node)
          [] node.k = "MemberAccess" -> itVisitMemberAccess(x, node)
          [] node.k = "FunctionCall" -> itVisitFunctionCall(x, node)
          [] node.k = "Function" -> itVisitFunction(x, node)
          [] node.k = "GroupedExpression" -> itAccept(x, node.kids[1])
          [] OTHER -> x)

\* Interpreter::execute for a program that is not null: the exception that
\* leaves accept is caught and reported, and execute returns false
execute(I, prog) ==
    With(itAccept([I EXCEPT !.cout = Append(@, "Program Started.")], prog),
         LAMBDA x : IF x.thrown
                    THEN [I |-> [x EXCEPT !.thrown = FALSE,
                                          !.cerr = Append(@, "bad_variant_access")],
                          result |-> FALSE]
                    ELSE [I |-> [x EXCEPT !.cout = Append(@, "Program Finished.")],
                          result |-> TRUE])

----------------------------------------------------------------------------
(* The programs compiled and run *)

\* the sequences over S of length at most k
SeqsUpTo(S, k) == UNION {[1..m -> S] : m \in 0..k}

\* x = e as a statement
Assign(name, e) == ExpressionStatement(BinaryExpression(Identifier(name), "=", e))

\* io.print(args) as a statement
IoPrint(args) ==
    ExpressionStatement(FunctionCall(MemberAccess(Identifier("io"), "print"), args))

\* f(args) as a statement
CallStmt(name, args) == ExpressionStatement(FunctionCall(Identifier(name), args))

VarDecl(name, typeName, init) == Declaration("var", name, Type(typeName), init)

ArrayDecl(keyword, name, elem, size) ==
    Declaration(keyword, name, ArrayType(elem, IntLiteral(size)), Nil)

\* literals: the ints 0..MaxLit, the doubles below MaxLit that are no integer,
\* two strings, the two booleans
IntLiterals == {IntLiteral(i) : i \in 0..MaxLit}

FloatLiterals == {NumberLiteral(f) : f \in {g \in 1..(MaxLit * FloatDen) : g % FloatDen # 0}}

Literals ==
    IntLiterals \cup FloatLiterals
        \cup {StringLiteral(<<>>), StringLiteral(<<"a">>)}
        \cup {BooleanLiteral(TRUE), BooleanLiteral(FALSE)}

\* (1/FloatDen) + ((FloatDen - 1)/FloatDen): the Float 1.0, which no literal yields
FloatOne ==
    GroupedExpression(BinaryExpression(NumberLiteral(1), "+", NumberLiteral(FloatDen - 1)))

\* n holds None, a an int array of one element, e an empty array
Prelude ==
    <<Declaration("var", "n", Nil, Nil), ArrayDecl("var", "a", "int", 1),
      ArrayDecl("val", "e", "int", 0)>>

Operands == Literals \cup {FloatOne, Identifier("n"), Identifier("a"), Identifier("e")}

BinaryOperators == {"+", "-", "*", "/", "<", "<=", ">", ">=", "==", "!="}

\* l op r as a statement, for every operator and every pair of operand kinds
BinaryPrograms ==
    {Program(Prelude \o <<ExpressionStatement(BinaryExpression(l, op, r))>>) :
        l \in Operands, r \in Operands, op \in BinaryOperators}

\* if c { t = 1 } and if c { t = 1 } else { t = 2 }, for every kind of condition
IfPrograms ==
    {Program(Prelude \o <<IfStatement(c, Block(<<Assign("t", IntLiteral(1))>>), els)>>) :
        c \in Operands, els \in {Nil, Block(<<Assign("t", IntLiteral(2))>>)}}

\* !c and -c as statements
UnaryPrograms ==
    {Program(Prelude \o <<ExpressionStatement(UnaryExpression(op, c))>>) :
        c \in Operands, op \in {"!", "-"}}

\* nesting of If, While, For, Break, Continue and Function to depth 2
Leaves == {BreakStatement, ContinueStatement, Assign("x", IntLiteral(1))}

LoopCondition1 == BinaryExpression(Identifier("x"), "<", IntLiteral(1))

Compound(bodies, elses) ==
    {IfStatement(LoopCondition1, Block(b), Nil) : b \in bodies}
        \cup {IfStatement(LoopCondition1, Block(b), Block(e2)) : b \in bodies, e2 \in elses}
        \cup {WhileStatement(LoopCondition1, Block(b)) : b \in bodies}
        \cup {ForStatement("i", RangeExpression(<<IntLiteral(0), IntLiteral(1)>>), Block(b)) :
                b \in bodies}
        \cup {Function("f", <<>>, Block(b)) : b \in bodies}

Level1 == Compound(SeqsUpTo(Leaves, 2), SeqsUpTo(Leaves, 1))

Level2 == Compound(SeqsUpTo(Leaves \cup Level1, 1), SeqsUpTo(Leaves, 1))

NestingPrograms ==
    {Program(<<VarDecl("x", "int", IntLiteral(0)), s>>) : s \in Leaves \cup Level1 \cup Level2}

\* programs of imports and function definitions only; the first body is
\* scenario 1 of the specification
HelloBody ==
    <<VarDecl("name", "str", StringLiteral(<<"G", "o", "b", "o", "l">>)),
      IoPrint(<<FormatString(<<"H", "i", " ", "{", "n", "a", "m", "e", "}">>,
                             <<Identifier("name")>>)>>),
      ReturnStatement(IntLiteral(0))>>

FunctionStatements ==
    {IoPrint(<<StringLiteral(<<"a">>)>>), Assign("x", IntLiteral(1)),
     ReturnStatement(IntLiteral(0)), ReturnStatement(Nil)}

FunctionBodies == {HelloBody} \cup SeqsUpTo(FunctionStatements, 2)

FunctionPrograms ==
    {Program(<<ImportStatement("io"), Function("main", <<>>, Block(b))>>) :
        b \in FunctionBodies}
      \cup {Program(<<Function("f", <<Parameter("y")>>, Block(b)),
                      Function("main", <<>>, Block(c))>>) :
                b \in SeqsUpTo(FunctionStatements, 1), c \in SeqsUpTo(FunctionStatements, 1)}

\* calls, returns and stores at the top level
CallStatements ==
    {Assign("p0", IntLiteral(2)), Assign("x", IntLiteral(1)), Assign("x", IntLiteral(2)),
     CallStmt("f", <<IntLiteral(1)>>), CallStmt("g", <<IntLiteral(1), IntLiteral(2)>>),
     CallStmt("h", <<>>), ReturnStatement(IntLiteral(0)), ReturnStatement(Nil),
     ReturnStatement(Identifier("p0"))}

CallPrograms == {Program(b) : b \in SeqsUpTo(CallStatements, 3)}

\* declarations, assignments, for-in-range loops and io.print calls
RangeLoop(end, step, body) ==
    ForStatement("i", RangeExpression(<<IntLiteral(0), IntLiteral(end), IntLiteral(step)>>),
                 Block(body))

AddTo(name, e) == Assign(name, BinaryExpression(Identifier(name), "+", e))

StraightStatements ==
    {VarDecl("x", "int", IntLiteral(0)), Declaration("val", "y", Nil, IntLiteral(1)),
     AddTo("x", IntLiteral(1)), IoPrint(<<Identifier("x")>>),
     IoPrint(<<StringLiteral(<<"a">>), IntLiteral(1)>>)}
        \cup {RangeLoop(end, 1, <<AddTo("x", Identifier("i"))>>) : end \in 0..MaxLit}
        \cup {RangeLoop(end, 1, <<IoPrint(<<Identifier("i")>>)>>) : end \in 1..MaxLit}

\* scenario 2 of the specification
Scenario2 ==
    Program(<<VarDecl("x", "int", IntLiteral(0)),
              ForStatement("i", RangeExpression(<<IntLiteral(0), IntLiteral(5), IntLiteral(1)>>),
                           Block(<<AddTo("x", Identifier("i"))>>)),
              IoPrint(<<Identifier("x")>>)>>)

StraightPrograms == {Scenario2} \cup {Program(b) : b \in SeqsUpTo(StraightStatements, 2)}

\* var a: T[n]; a[i] = v; io.print(a[i])
ElementTypes == {"int", "float", "bool", "str"}

ArrayValues ==
    {IntLiteral(MaxLit), NumberLiteral(1), BooleanLiteral(TRUE), StringLiteral(<<"a">>)}

ArrayProgram(elem, size, index, value) ==
    Program(<<ArrayDecl("var", "a", elem, size),
              ExpressionStatement(BinaryExpression(ArrayIndex(Identifier("a"), index), "=", value)),
              IoPrint(<<ArrayIndex(Identifier("a"), index)>>)>>)

\* scenario 3 of the specification
Scenario3 == ArrayProgram("int", 3, IntLiteral(1), IntLiteral(42))

ArrayPrograms ==
    {Scenario3}
      \cup {ArrayProgram(elem, size, IntLiteral(index), value) :
                elem \in ElementTypes, size \in 0..MaxLit, index \in 0..MaxLit,
                value \in ArrayValues}

\* io.print(@"raw") for every raw string over a letter and the two braces,
\* with no, one or two placeholder values
FormatValues ==
    {<<>>, <<StringLiteral(<<"b">>)>>, <<IntLiteral(1), NumberLiteral(1)>>}

FormatPrograms ==
    {Program(<<IoPrint(<<FormatString(raw, values)>>)>>) :
        raw \in SeqsUpTo({"a", "{", "}"}, MaxFmt), values \in FormatValues}

\* loops whose body prints, then breaks or continues (at once, or under an if
\* that holds in the first iteration only), then prints again
LoopControls ==
    {c : c \in {BreakStatement, ContinueStatement}}
        \cup {IfStatement(BinaryExpression(Identifier(v), "<", IntLiteral(1)), Block(<<c>>), Nil) :
                 v \in {"x", "i"}, c \in {BreakStatement, ContinueStatement}}

WhileControl(c) ==
    Program(<<VarDecl("x", "int", IntLiteral(0)), VarDecl("i", "int", IntLiteral(0)),
              WhileStatement(BinaryExpression(Identifier("x"), "<", IntLiteral(MaxLit)),
                             Block(<<AddTo("x", IntLiteral(1)), IoPrint(<<Identifier("x")>>), c,
                                     IoPrint(<<StringLiteral(<<"a">>)>>)>>)),
              IoPrint(<<Identifier("x")>>)>>)

ForControl(c) ==
    Program(<<VarDecl("x", "int", IntLiteral(0)),
              ForStatement("i", RangeExpression(<<IntLiteral(0), IntLiteral(MaxLit)>>),
                           Block(<<IoPrint(<<Identifier("i")>>), c,
                                   IoPrint(<<StringLiteral(<<"a">>)>>)>>)),
              IoPrint(<<Identifier("x")>>)>>)

LoopControlPrograms == {WhileControl(c) : c \in LoopControls} \cup {ForControl(c) : c \in LoopControls}

\* functions that end in an if whose then branch returns, and functions of an
\* empty body, after a function and before main
ReturningIf(els) ==
    IfStatement(BinaryExpression(Identifier("y"), "<", IntLiteral(1)),
                Block(<<ReturnStatement(IntLiteral(1))>>), els)

FunctionEndPrograms ==
    {Program(<<Function("f", <<Parameter("y")>>, Block(b)),
               Function("g", <<Parameter("y")>>, Block(c)),
               Function("main", <<>>, Block(<<CallStmt("g", <<IntLiteral(1)>>)>>))>>) :
        b \in {<<>>, <<ReturnStatement(IntLiteral(0))>>, <<Assign("x", IntLiteral(1))>>},
        c \in {<<>>, <<ReturningIf(Nil)>>,
               <<ReturningIf(Block(<<ReturnStatement(IntLiteral(0))>>))>>,
               <<ReturningIf(Block(<<Assign("x", IntLiteral(1))>>))>>}}

\* for i in range(a, b, s) { io.print("b"); inner }; io.print("e"), the step
\* negative or positive, inner nothing or a loop over another range
InnerLoops ==
    {<<>>} \cup {<<ForStatement("j", RangeExpression(<<IntLiteral(0), IntLiteral(end), IntLiteral(1)>>),
                               Block(<<>>))>> : end \in 0..MaxLit}

StepLoop(a, b, step, inner) ==
    Program(<<ForStatement("i", RangeExpression(<<IntLiteral(a), IntLiteral(b), IntLiteral(step)>>),
                           Block(<<IoPrint(<<StringLiteral(<<"b">>)>>)>> \o inner)),
              IoPrint(<<StringLiteral(<<"e">>)>>)>>)

StepLoopPrograms ==
    {StepLoop(a, b, step, inner) :
        a \in 0..MaxLit, b \in 0..MaxLit, step \in {0 - 2, 0 - 1, 1, 2}, inner \in InnerLoops}

Programs ==
    FormatPrograms \cup BinaryPrograms \cup IfPrograms \cup UnaryPrograms \cup NestingPrograms
        \cup FunctionPrograms \cup CallPrograms \cup StraightPrograms \cup ArrayPrograms
        \cup LoopControlPrograms \cup FunctionEndPrograms \cup StepLoopPrograms

----------------------------------------------------------------------------
(* The parts that a specification leaves alone *)

\* no compilation is between two addConstant calls
PoolIdle == compiler = newCompiler /\ returned = <<>>

\* no parser is at work
ParserIdle == builder = newBuilder(<<>>)

\* no interpreter has executed anything
InterpreterIdle == interpreter = newInterpreter /\ executed = "no"

\* no main is under way
MainIdle ==
    mainFrame = [argc |-> 0, debug |-> FALSE, elided |-> FALSE, source |-> <<>>, at |-> "idle",
                 position |-> 0, tk |-> [type |-> "WRONG_TOKEN", value |-> ""], returned |-> -1]

\* no analysis is under way
AnalyzerIdle ==
    /\ sa = newAnalyzer
    /\ todo = <<>>
    /\ visited = [item |-> [kind |-> "", node |-> Nil, ctx |-> [function |-> "",
                       returnType |-> "NONE", hasReturn |-> FALSE]],
                  sa |-> newAnalyzer, todo |-> <<>>]
    /\ verdict = "idle"

\* no virtual machine runs
VMIdle ==
    /\ code = <<>>
    /\ constants = <<>>
    /\ pc = 0
    /\ running = FALSE
    /\ evalStack = <<>>
    /\ callStack = <<>>
    /\ out = <<>>
    /\ errs = <<>>
    /\ status = "idle"
    /\ steps = 0
    /\ hist = [instr |-> Instr0(""), pc |-> -1, evalStack |-> <<>>, callStack |-> <<>>,
               nerrs |-> 0, out |-> <<>>]

----------------------------------------------------------------------------
(* The specification *)

\* the entry of run: pc = 0, running = true, the "global" frame pushed
Init ==
    /\ program \in Programs
    /\ code = compile(program).code
    /\ constants = compile(program).constants
    /\ pc = 0
    /\ running = TRUE
    /\ evalStack = <<>>
    /\ callStack = <<CallFrame("global", 0, 0)>>
    /\ out = <<>>
    /\ errs = compile(program).cerrs
    /\ status = "loop"
    /\ steps = 0
    /\ hist = [instr |-> Instr0(""), pc |-> -1, evalStack |-> <<>>, callStack |-> <<>>,
               nerrs |-> 0, out |-> <<>>]
    /\ PoolIdle
    /\ ParserIdle
    /\ InterpreterIdle
    /\ MainIdle
    /\ AnalyzerIdle

Next ==
    \/ ExecLOAD_CONST
    \/ ExecLOAD_VAR
    \/ ExecSTORE_VAR
    \/ ExecALLOC_ARRAY
    \/ ExecARRAY_GET
    \/ ExecARRAY_SET
    \/ ExecADD
    \/ ExecCompare
    \/ ExecEQ
    \/ ExecNE
    \/ ExecJMP
    \/ ExecJMP_FALSE
    \/ ExecCALL
    \/ ExecRET
    \/ ExecBUILTIN
    \/ ExecNOT
    \/ ExecSWAP
    \/ ExecFORMAT
    \/ ExecHALT
    \/ ExecDefault
    \/ RunReturn

Spec == Init /\ [][Next]_vars

----------------------------------------------------------------------------
(* The constant pool under a sequence of Compiler::addConstant calls of one
   compilation *)

\* the values handed to addConstant: Int 1 and Float 1.0, Int 0 and Str "0"
\* are among them
PoolValues ==
    {IntV(i) : i \in 0..MaxLit} \cup {FloatV(1), FloatV(FloatDen)}
        \cup {BoolV(TRUE), BoolV(FALSE), StrV(<<>>), StrV(<<"0">>), NoneV}

\* the state compile sets up before program->accept(this)
InitConstants ==
    /\ program = Program(<<>>)
    /\ VMIdle
    /\ PoolIdle
    /\ ParserIdle
    /\ InterpreterIdle
    /\ MainIdle
    /\ AnalyzerIdle

\* int idx = addConstant(v)
CallAddConstant ==
    \E v \in PoolValues :
        /\ Len(returned) < MaxCalls
        /\ compiler' = addConstant(compiler, v)
        /\ returned' = Append(returned, [value |-> v, index |-> addConstantIdx(compiler, v)])
        /\ UNCHANGED <<program, vmVars, analyzerVars, parserVars, interpreterVars, mainVars>>

NextConstants == CallAddConstant

SpecConstants == InitConstants /\ [][NextConstants]_vars

----------------------------------------------------------------------------
(* The semantic analysis of one program *)

\* a function declared twice: at the top level, and inside a loop body
RedeclaredFunctions ==
    {Program(<<Function("f", <<>>, Block(b)), c>>) : b \in SeqsUpTo(Leaves, 1), c \in Level1}
      \cup {Program(<<VarDecl("x", "int", IntLiteral(0)),
                      WhileStatement(LoopCondition1,
                                     Block(<<Function("f", <<>>, Block(<<>>)),
                                             Function("f", <<>>, Block(b))>>))>>) :
                b \in SeqsUpTo(Leaves, 1)}

\* programs that declare their module
ModulePrograms ==
    {Program(<<ModuleStatement(m), Function("f", <<>>, Block(<<>>)), s>>) :
        m \in {"io", "m"},
        s \in {CallStmt("f", <<>>), CallStmt("print", <<>>), Function("print", <<>>, Block(<<>>))}}

\* the arguments of the calls: well typed, and an identifier nobody declares
CallArguments == {<<>>, <<IntLiteral(1)>>, <<Identifier("u")>>, <<StringLiteral(<<"a">>), Identifier("u")>>}

\* a call of a bare name or of a member of a module, with and without a
\* module statement before it
BareCallPrograms ==
    {Program(m \o <<Function("f", <<>>, Block(<<>>)), ExpressionStatement(FunctionCall(c, as))>>) :
        m \in {<<>>, <<ModuleStatement("m")>>, <<ModuleStatement("__builtins__")>>},
        c \in {Identifier("print"), Identifier("len"), Identifier("range"), Identifier("f"),
               Identifier("g"), MemberAccess(Identifier("io"), "print"),
               MemberAccess(Identifier("io"), "len")},
        as \in CallArguments}

\* parameter lists with and without a name twice
ParameterLists ==
    {<<>>, <<TypedParameter("a", "int")>>,
     <<TypedParameter("a", "int"), TypedParameter("b", "int")>>,
     <<TypedParameter("a", "int"), TypedParameter("a", "int")>>,
     <<TypedParameter("a", "int"), TypedParameter("a", "str")>>,
     <<TypedParameter("a", "int"), TypedParameter("b", "int"), TypedParameter("a", "int")>>}

\* the declarations of one statement list: a name twice, a name shadowed in
\* a nested block, a name of a parameter
DeclarationLists ==
    SeqsUpTo({VarDecl("x", "int", IntLiteral(0)), VarDecl("y", "int", IntLiteral(0)),
              VarDecl("a", "int", IntLiteral(0)), VarDecl("x", "str", StringLiteral(<<"a">>)),
              WhileStatement(BooleanLiteral(TRUE), Block(<<VarDecl("x", "int", IntLiteral(0))>>))},
             2)

DuplicatePrograms ==
    {Program(<<TypedFunction("f", ps, "", Block(ds))>>) :
        ps \in ParameterLists, ds \in DeclarationLists}
      \cup {Program(ds) : ds \in DeclarationLists}
      \cup {Program(<<ModuleStatement("m"), Function(f, <<>>, Block(<<>>)),
                      Function(g, <<>>, Block(<<>>))>>) : f \in {"f", "g"}, g \in {"f", "g"}}

\* one operand of each type: int, float, str, bool, none (what io.print
\* returns) and unknown (a name nobody declares)
TypedOperands ==
    {IntLiteral(1), NumberLiteral(1), StringLiteral(<<"a">>), BooleanLiteral(TRUE),
     FunctionCall(MemberAccess(Identifier("io"), "print"), <<>>), Identifier("u")}

ArithmeticOperators == {"+", "-", "*", "/", "%"}

ComparisonOperators == {"==", "!=", "<", "<=", ">", ">="}

LogicalOperators == {"&&", "||"}

OperatorPrograms ==
    {Program(<<ExpressionStatement(BinaryExpression(l, op, r))>>) :
        l \in TypedOperands, r \in TypedOperands,
        op \in ArithmeticOperators \cup ComparisonOperators \cup LogicalOperators}

\* a declaration of x with each declared type and an initializer of each
\* type, alone and after another declaration of x
InitializedPrograms ==
    {Program(d \o <<VarDecl("x", ty, e)>>) :
        d \in {<<>>, <<VarDecl("x", "int", IntLiteral(0))>>},
        ty \in {"int", "float", "str", "bool"},
        e \in TypedOperands}

AnalyzerPrograms ==
    NestingPrograms \cup RedeclaredFunctions \cup ModulePrograms \cup BareCallPrograms
        \cup FunctionPrograms \cup CallPrograms \cup DuplicatePrograms \cup OperatorPrograms
        \cup InitializedPrograms

\* the state after SemanticAnalyzer's constructor
InitAnalyzer ==
    /\ program \in AnalyzerPrograms
    /\ sa = newAnalyzer
    /\ todo = <<>>
    /\ visited = [item |-> Item("", Nil, NoContext), sa |-> newAnalyzer, todo |-> <<>>]
    /\ verdict = "constructed"
    /\ VMIdle
    /\ PoolIdle
    /\ ParserIdle
    /\ InterpreterIdle
    /\ MainIdle

NextAnalyzer ==
    \/ Analyze
    \/ VisitProgram
    \/ VisitModuleStatement
    \/ VisitImportStatement
    \/ VisitFunction
    \/ EndFunction
    \/ VisitBlock
    \/ EndBlock
    \/ VisitDeclaration
    \/ VisitIfStatement
    \/ VisitWhileStatement
    \/ EndWhile
    \/ VisitForStatement
    \/ EndFor
    \/ VisitReturnStatement
    \/ VisitBreakStatement
    \/ VisitContinueStatement
    \/ VisitExpressionStatement
    \/ AnalyzeReturn

SpecAnalyzer == InitAnalyzer /\ [][NextAnalyzer]_vars

----------------------------------------------------------------------------
(* An Environment under any sequence of enterScope, exitScope and
   declareVariable *)

EnvironmentNames == {"x", "y"}

EnvironmentTypes == {"INT", "STR"}

\* the state after Environment's constructor
InitEnvironment ==
    /\ program = Program(<<>>)
    /\ sa = newAnalyzer
    /\ todo = <<>>
    /\ visited = [item |-> Item("", Nil, NoContext), sa |-> newAnalyzer, todo |-> <<>>]
    /\ verdict = "environment"
    /\ VMIdle
    /\ PoolIdle
    /\ ParserIdle
    /\ InterpreterIdle
    /\ MainIdle

\* the call leaves the scopes s and has returned r
EnvironmentCalled(call, arg, s, r) ==
    /\ verdict \in {"environment", "void", "true", "false"}
    /\ sa' = [sa EXCEPT !.scopes = s]
    /\ verdict' = r
    /\ visited' = [item |-> Item(call, arg, NoContext), sa |-> sa, todo |-> todo]
    /\ UNCHANGED <<program, todo, vmVars, poolVars, parserVars, interpreterVars, mainVars>>

CallEnterScope ==
    /\ Len(sa.scopes) < MaxScopes
    /\ EnvironmentCalled("enterScope", Nil, enterScope(sa.scopes), "void")

CallExitScope ==
    EnvironmentCalled("exitScope", Nil, exitScope(sa.scopes), "void")

\* bool ok = env.declareVariable(name, type); arg holds name and type
CallDeclareVariable ==
    \E name \in EnvironmentNames, type \in EnvironmentTypes :
        EnvironmentCalled("declareVariable", Node("Declaration", name, type, 0, <<>>, <<>>),
                          envDeclareVariable(sa.scopes, name, type),
                          IF canDeclareVariable(sa.scopes, name) THEN "true" ELSE "false")

NextEnvironment ==
    \/ CallEnterScope
    \/ CallExitScope
    \/ CallDeclareVariable

SpecEnvironment == InitEnvironment /\ [][NextEnvironment]_vars

----------------------------------------------------------------------------
(* ASTBuilder::build on a buffer of tokens *)

\* Lexer::keywords
keywords ==
    {"if", "else", "for", "return", "int", "float", "str", "func", "var", "val", "module",
     "import"}

\* the token the lexer makes of a word: a keyword or an identifier
wordToken(word) == Token(IF word \in keywords THEN "KEYWORD" ELSE "IDENTIFIER", word)

\* the tokens of one declaration: the keyword, the name, the type and the
\* initializer or not, the end of the line or of the text
DeclarationKeywords == {"var", "val", "let", "const"}

DeclarationLines ==
    {<<wordToken(kw), wordToken("x")>> \o ty \o init \o end :
        kw \in DeclarationKeywords,
        ty \in {<<>>, <<Token("OPERATOR", ":"), wordToken("int")>>,
                <<Token("OPERATOR", ":"), wordToken("T")>>},
        init \in {<<>>, <<Token("OPERATOR", "="), Token("NUMBER", "1")>>,
                  <<Token("OPERATOR", "="), wordToken("y"), Token("OPERATOR", "+"),
                    Token("NUMBER", "1")>>},
        end \in {<<>>, <<Token("END_OF_LINE", "\n")>>}}

TokenAlphabet ==
    {Token("KEYWORD", "import"), Token("KEYWORD", "return"), Token("KEYWORD", "break"),
     Token("IDENTIFIER", "io"), Token("NUMBER", "1"), Token("OPERATOR", "+"),
     Token("OPERATOR", "}"), Token("END_OF_LINE", "\n")}

\* the builder before build.  The constructor of the source reads the first
\* token of the lexer and appends nothing to the buffer; what parseProgram
\* does is a matter of the buffer alone, so every buffer is taken.
InitParser ==
    /\ program = Program(<<>>)
    /\ builder \in {newBuilder(ts) : ts \in SeqsUpTo(TokenAlphabet, MaxTokens) \cup DeclarationLines}
    /\ VMIdle
    /\ PoolIdle
    /\ AnalyzerIdle
    /\ InterpreterIdle
    /\ MainIdle

NextParser ==
    \/ ParseImport
    \/ ParseDeclaration
    \/ ParseReturnStatement
    \/ ParseUnimplemented
    \/ ParseExpressionStatement
    \/ ParseBlockEnd
    \/ ParseUnexpected
    \/ BuildReturn

SpecParser == InitParser /\ [][NextParser]_vars

----------------------------------------------------------------------------
(* The interpreter alone: one call of Interpreter::execute on a program.   *)

\* val result = l op r, for every operator and every pair of literals
InterpretedOperators == ArithmeticOperators \cup ComparisonOperators \cup LogicalOperators

ResultOf(e) == Program(<<Declaration("val", "result", Nil, e)>>)

ExpressionPrograms ==
    {ResultOf(BinaryExpression(l, op, r)) :
        l \in Literals, r \in Literals, op \in InterpretedOperators}

InterpreterPrograms == ExpressionPrograms

InitInterpreter ==
    /\ program \in InterpreterPrograms
    /\ interpreter = newInterpreter
    /\ executed = "no"
    /\ VMIdle
    /\ PoolIdle
    /\ AnalyzerIdle
    /\ ParserIdle
    /\ MainIdle

\* interpreter.execute(program)
Execute ==
    /\ executed = "no"
    /\ interpreter' = execute(interpreter, program).I
    /\ executed' = IF execute(interpreter, program).result THEN "true" ELSE "false"
    /\ UNCHANGED <<program, vmVars, poolVars, analyzerVars, parserVars, mainVars>>

NextInterpreter == Execute

SpecInterpreter == InitInterpreter /\ [][NextInterpreter]_vars

----------------------------------------------------------------------------
(* main: one run of the command-line program.  The source file is the      *)
(* sequence of tokens Lexer::getNextToken yields for it, END_OF_FILE after *)
(* the last; position is the number of tokens main's lexer has yielded.    *)
(* debug: the program was built with DEBUG defined; elided: the build      *)
(* dropped the constructor's loop.  tk is the constructor's local.         *)

\* the longest source file, in tokens
MaxSource == 2

RECURSIVE parseProgram(_)
\* ASTBuilder::parseProgram, and build, which returns its Program
parseProgram(b) ==
    IF match(b, "END_OF_FILE") \/ b.errorOccurred THEN [b EXCEPT !.built = TRUE]
    ELSE With(consumeEndOfLine(b),
              LAMBDA at :
                  IF match(at, "END_OF_FILE") THEN [at EXCEPT !.built = TRUE]
                  ELSE With(parseStatement(at),
                            LAMBDA r :
                                parseProgram(IF r.node # Nil
                                             THEN [r.b EXCEPT !.statements = Append(@, r.node)]
                                             ELSE advance(r.b))))

\* return code from main
MainReturn(exitCode) == mainFrame' = [mainFrame EXCEPT !.at = "returned", !.returned = exitCode]

\* if (argc == 1) { ...; return 0; }
MainUsage ==
    /\ mainFrame.at = "main" /\ mainFrame.argc = 1
    /\ MainReturn(0)
    /\ UNCHANGED <<program, vmVars, poolVars, analyzerVars, parserVars, interpreterVars>>

\* getSource, the Lexer, auto tk = lexer.getNextToken() and, under DEBUG, the
\* loop that prints every token and lexer.resetPosition()
MainGetNextToken ==
    /\ mainFrame.at = "main" /\ mainFrame.argc # 1
    /\ mainFrame' = [mainFrame EXCEPT
                        !.at = "builder",
                        !.position = IF mainFrame.debug \/ mainFrame.source = <<>> THEN 0 ELSE 1]
    /\ UNCHANGED <<program, vmVars, poolVars, analyzerVars, parserVars, interpreterVars>>

\* the token main's lexer yields next: END_OF_FILE after the last of the source
getNextToken(frame) ==
    IF frame.position < Len(frame.source) THEN frame.source[frame.position + 1]
    ELSE Token("END_OF_FILE", "")

\* AST::ASTBuilder builder(lexer): the constructor initialises the members and
\* takes one token from its copy of the lexer.  Nothing is ever put into the
\* token buffer.
MainConstruct ==
    /\ mainFrame.at = "builder"
    /\ mainFrame' = [mainFrame EXCEPT !.at = "while", !.tk = getNextToken(mainFrame)]
    /\ builder' = newBuilder(<<>>)
    /\ UNCHANGED <<program, vmVars, poolVars, analyzerVars, interpreterVars>>

\* while (tk.type != END_OF_FILE) in the constructor.  The loop has no side
\* effect, so when its test is true its behaviour is undefined: the build
\* either kept the loop or dropped it (elided).
ConstructorWhile ==
    /\ mainFrame.at = "while"
    /\ mainFrame' = [mainFrame EXCEPT
                        !.at = IF mainFrame.tk.type = "END_OF_FILE" \/ mainFrame.elided
                               THEN "build" ELSE "body"]
    /\ UNCHANGED <<program, vmVars, poolVars, analyzerVars, parserVars, interpreterVars>>

\* { } : the body of the constructor's loop changes nothing, tk least of all
ConstructorBody ==
    /\ mainFrame.at = "body"
    /\ mainFrame' = [mainFrame EXCEPT !.at = "while"]
    /\ UNCHANGED <<program, vmVars, poolVars, analyzerVars, parserVars, interpreterVars>>

\* prog = builder.build() followed at once by the Interpreter
MainBuild_Mutant ==
    /\ mainFrame.at = "build"
    /\ builder' = parseProgram(builder)
    /\ program' = Program(builder'.statements)
    /\ mainFrame' = [mainFrame EXCEPT !.at = "execute"]
    /\ UNCHANGED <<vmVars, poolVars, analyzerVars, interpreterVars>>

\* prog = builder.build(); if (builder.hasError()) return 1; then the
\* SemanticAnalyzer is constructed
MainBuild ==
    /\ mainFrame.at = "build"
    /\ builder' = parseProgram(builder)
    /\ program' = Program(builder'.statements)
    /\ IF builder'.errorOccurred
       THEN MainReturn(1) /\ UNCHANGED analyzerVars
       ELSE /\ mainFrame' = [mainFrame EXCEPT !.at = "analyze"]
            /\ sa' = newAnalyzer
            /\ verdict' = "constructed"
            /\ UNCHANGED <<todo, visited>>
    /\ UNCHANGED <<vmVars, poolVars, interpreterVars>>

\* if (!semanticPassed) return 1; then the Interpreter is constructed
MainAnalyzed ==
    /\ mainFrame.at = "analyze"
    /\ verdict \in {"passed", "failed"}
    /\ IF verdict = "failed" THEN MainReturn(1)
       ELSE mainFrame' = [mainFrame EXCEPT !.at = "execute"]
    /\ UNCHANGED <<program, vmVars, poolVars, analyzerVars, parserVars, interpreterVars>>

\* interpreter.execute(prog); return 0: what execute returns is not looked at
MainExecute ==
    /\ mainFrame.at = "execute"
    /\ interpreter' = execute(newInterpreter, program).I
    /\ executed' = IF execute(newInterpreter, program).result THEN "true" ELSE "false"
    /\ MainReturn(0)
    /\ UNCHANGED <<program, vmVars, poolVars, analyzerVars, parserVars>>

InitMain ==
    /\ mainFrame \in {[argc |-> c, debug |-> d, elided |-> e, source |-> ts, at |-> "main",
                         position |-> 0, tk |-> Token("WRONG_TOKEN", ""), returned |-> -1] :
                           c \in 1..2, d \in BOOLEAN, e \in BOOLEAN,
                           ts \in SeqsUpTo(TokenAlphabet, MaxSource)}
    /\ program = Program(<<>>)
    /\ VMIdle
    /\ PoolIdle
    /\ AnalyzerIdle
    /\ ParserIdle
    /\ InterpreterIdle

NextMain ==
    \/ MainUsage
    \/ MainGetNextToken
    \/ MainConstruct
    \/ ConstructorWhile
    \/ ConstructorBody
    \/ MainBuild
    \/ Analyze
    \/ VisitProgram
    \/ AnalyzeReturn
    \/ MainAnalyzed
    \/ MainExecute

SpecMain == InitMain /\ [][NextMain]_vars

\* the process goes on as long as main has a step to take
SpecMainFair == SpecMain /\ WF_vars(NextMain)

----------------------------------------------------------------------------
(* The claims.  hist is the state the last executed instruction found, so the
   state itself is what that instruction left. *)

\* the opcode of the instruction last executed
LastOp == hist.instr.op

\* the k-th value below the top of the eval stack that instruction found
Operand(k) == hist.evalStack[Len(hist.evalStack) - k]

\* the eval stack that instruction found, without its top k values
Below(k) == SubSeq(hist.evalStack, 1, Len(hist.evalStack) - k)

\* C1: ADD, SUB, MUL and DIV on two numeric operands pop both and push one
\* result, an Int when both operands are Int and a Float otherwise; ADD with
\* a None operand pushes None and reports an error.
C1_ArithmeticPopsTwoPushesOne ==
    /\ (/\ LastOp \in {"ADD", "SUB", "MUL", "DIV"}
        /\ Len(hist.evalStack) >= 2
        /\ Operand(0).t \in {"INT", "FLOAT"}
        /\ Operand(1).t \in {"INT", "FLOAT"})
       => /\ Len(evalStack) = Len(hist.evalStack) - 1
          /\ SubSeq(evalStack, 1, Len(evalStack) - 1) = Below(2)
          /\ evalStack[Len(evalStack)].t =
                 IF Operand(0).t = "INT" /\ Operand(1).t = "INT" THEN "INT" ELSE "FLOAT"
    /\ (/\ LastOp = "ADD"
        /\ Len(hist.evalStack) >= 2
        /\ (Operand(0).t = "NONE" \/ Operand(1).t = "NONE"))
       => /\ evalStack = Append(Below(2), NoneV)
          /\ Len(errs) > hist.nerrs

\* C2: an operand of the wrong type (a Str, a Bool or an Array given to ADD,
\* LT, LE, GT or GE) makes the instruction push None (false for a comparison)
\* and execution continue; only a pop from the empty eval stack is fatal.
C2_WrongTypeOperandContinues ==
    /\ (/\ LastOp \in {"ADD", "LT", "LE", "GT", "GE"}
        /\ Len(hist.evalStack) >= 2
        /\ Operand(0).t # "NONE" /\ Operand(1).t # "NONE"
        /\ (\/ Operand(0).t \in {"STRING", "BOOL", "ARRAY"}
            \/ Operand(1).t \in {"STRING", "BOOL", "ARRAY"}))
       => /\ status # "thrown"
          /\ evalStack = Append(Below(2), IF LastOp = "ADD" THEN NoneV ELSE BoolV(FALSE))
    /\ status = "thrown"
       => LET pops == CASE LastOp \in {"ADD", "LT", "LE", "GT", "GE", "EQ", "NE",
                                       "ALLOC_ARRAY", "ARRAY_GET"} -> 2
                        [] LastOp = "ARRAY_SET" -> 3
                        [] LastOp \in {"STORE_VAR", "STORE_VAL", "JMP_FALSE", "RET"} -> 1
                        [] LastOp \in {"CALL", "BUILTIN"} -> hist.instr.i1
                        [] OTHER -> 0
          IN Len(hist.evalStack) < pops

\* C3: every JMP, JMP_TRUE and JMP_FALSE of a compiled module has a target t
\* with 0 <= t < |code|, whatever the nesting of If, While, For, Break,
\* Continue and Function in the program.
C3_JumpTargetsInRange ==
    \A i \in 1..Len(code) :
        code[i].op \in {"JMP", "JMP_TRUE", "JMP_FALSE"}
            => code[i].i1 >= 0 /\ code[i].i1 < Len(code)

\* a While as the last statement, with a For in it whose body breaks and
\* continues: the exit jumps of both loops are patched to the last positions
C3_Witness ==
    /\ program = Program(<<VarDecl("x", "int", IntLiteral(0)),
                           WhileStatement(LoopCondition1, Block(<<
                               ForStatement("i", RangeExpression(<<IntLiteral(0), IntLiteral(1)>>),
                                            Block(<<BreakStatement, ContinueStatement>>))>>))>>)
    /\ \E i \in 1..Len(code) : code[i].op = "JMP_FALSE" /\ code[i].i1 = Len(code) - 1
    /\ Cardinality({i \in 1..Len(code) : code[i].op = "JMP"}) >= 4
    /\ LastOp = "JMP"

\* C4: when the program holds only imports and function definitions, running
\* its module executes no instruction of a function body, runs no BUILTIN
\* print and writes nothing to standard output.
C4_FunctionsOnlyRunNothing ==
    (\A i \in 1..Len(program.kids) : program.kids[i].k \in {"ImportStatement", "Function"})
        => /\ out = <<>>
           /\ steps > 0 => LastOp = "HALT"

\* C5: CALL argc, name at address a removes argc values from the eval stack
\* and pushes one frame whose return address is a + 1 and whose locals are
\* p0 .. p(argc-1), bound to those values in the order they were pushed; the
\* RET that pops a frame sets pc to the frame's return address (-1 when the
\* frame was the last one), removes that one frame and leaves the returned
\* value on top of the eval stack; every frame above the first was pushed by
\* the CALL just before its return address.
C5_CallAndReturn ==
    /\ (LastOp = "CALL" /\ Len(hist.evalStack) >= hist.instr.i1 /\ status # "returned")
       => LET argc == hist.instr.i1
              frame == callStack[Len(callStack)]
              pname == <<"p0", "p1", "p2">>
          IN /\ evalStack = Below(argc)
             /\ callStack = Append(hist.callStack, frame)
             /\ frame.returnAddress = hist.pc + 1
             /\ pc = hist.pc + 1
             /\ DOMAIN frame.localVars = {pname[i] : i \in 1..argc}
             /\ \A i \in 1..argc : frame.localVars[pname[i]] = Below(argc - i)[Len(Below(argc - i))]
    /\ (LastOp = "RET" /\ hist.callStack # <<>> /\ hist.evalStack # <<>> /\ status # "returned")
       => /\ callStack = SubSeq(hist.callStack, 1, Len(hist.callStack) - 1)
          /\ pc = IF Len(hist.callStack) = 1 THEN -1
                  ELSE hist.callStack[Len(hist.callStack)].returnAddress
          /\ evalStack = hist.evalStack
    /\ \A k \in 2..Len(callStack) :
           /\ callStack[k].returnAddress >= 1
           /\ code[callStack[k].returnAddress].op = "CALL"
           /\ code[callStack[k].returnAddress].s = callStack[k].functionName

\* g(1, 2) was called from address 2 and the RET after it has popped its
\* frame: pc is back at 3, one frame is left, the returned value is on top
C5_Witness ==
    /\ LastOp = "RET"
    /\ Len(hist.callStack) = 2
    /\ hist.callStack[2].functionName = "g"
    /\ hist.callStack[2].localVars = [n \in {"p0", "p1"} |-> IF n = "p0" THEN IntV(1) ELSE IntV(2)]
    /\ hist.callStack[2].returnAddress = 3
    /\ code[3].op = "CALL"
    /\ pc = 3
    /\ Len(callStack) = 1
    /\ evalStack # <<>>

\* C6: a program of declarations, assignment statements, for-in-range loops
\* and io.print statements has an empty eval stack when HALT executes.
C6_StackEmptyAtHalt ==
    (program \in StraightPrograms /\ LastOp = "HALT") => evalStack = <<>>

\* C7: JMP_FALSE pops one value, pushes nothing and jumps to its target
\* exactly when the value is falsy: None is falsy, an Int or a Float is truthy
\* iff nonzero, a Bool is itself, a Str and an Array are truthy iff nonempty;
\* otherwise pc is the next instruction.
C7_JumpFalseTruthiness ==
    (LastOp = "JMP_FALSE" /\ hist.evalStack # <<>>)
        => LET v == Operand(0)
               truthy == CASE v.t = "NONE" -> FALSE
                           [] v.t \in {"INT", "FLOAT"} -> v.n # 0
                           [] v.t = "BOOL" -> v.b
                           [] v.t = "STRING" -> v.s # <<>>
                           [] v.t = "ARRAY" -> v.a # <<>>
           IN /\ evalStack = Below(1)
              /\ pc = IF truthy THEN hist.pc + 1 ELSE hist.instr.i1

\* C8: STORE_VAR and STORE_VAL pop a value v; when some frame binds the name,
\* v overwrites the binding of the topmost such frame and no other frame
\* changes; otherwise the binding is added to the top frame and no other
\* frame changes; the number of frames stays the same.
C8_StoreWritesOneFrame ==
    (/\ LastOp \in {"STORE_VAR", "STORE_VAL"}
     /\ hist.evalStack # <<>>
     /\ status # "returned")
        => LET name == hist.instr.s
               old == hist.callStack
               binders == {k \in 1..Len(old) : name \in DOMAIN old[k].localVars}
               target == IF binders = {} THEN Len(old)
                         ELSE CHOOSE k \in binders : \A j \in binders : j <= k
           IN /\ evalStack = Below(1)
              /\ Len(callStack) = Len(old)
              /\ \A k \in 1..Len(old) : k # target => callStack[k] = old[k]
              /\ DOMAIN callStack[target].localVars = DOMAIN old[target].localVars \cup {name}
              /\ callStack[target].localVars[name] = Operand(0)
              /\ \A m \in DOMAIN old[target].localVars :
                     m # name => callStack[target].localVars[m] = old[target].localVars[m]
              /\ callStack[target].returnAddress = old[target].returnAddress
              /\ callStack[target].functionName = old[target].functionName

\* p0 is bound in the global frame and, as a parameter with another value, in
\* the frame of f; the store has changed the binding of the frame of f only
C8_Witness ==
    /\ LastOp \in {"STORE_VAR", "STORE_VAL"}
    /\ hist.instr.s = "p0"
    /\ Len(hist.callStack) = 2
    /\ "p0" \in DOMAIN hist.callStack[1].localVars
    /\ "p0" \in DOMAIN hist.callStack[2].localVars
    /\ hist.callStack[2].localVars["p0"] = IntV(1)
    /\ Len(callStack) = 2
    /\ callStack[2].localVars["p0"] = IntV(2)
    /\ callStack[1] = hist.callStack[1]

\* C9: after var a: T[n] and a[i] = v with 0 <= i < n and T among int, float,
\* bool and str, a is bound to an array of length n whose element i is v and
\* whose other elements are the default of T: 0, 0.0, false, the empty string.
C9_ArrayAfterElementStore ==
    (LastOp = "HALT" /\ status = "loop") =>
    \A elem \in ElementTypes, size \in 1..(MaxLit + 1), index \in 0..MaxLit :
        \A lit \in {<<IntLiteral(MaxLit), IntV(MaxLit)>>, <<NumberLiteral(1), FloatV(1)>>,
                    <<BooleanLiteral(TRUE), BoolV(TRUE)>>,
                    <<StringLiteral(<<"a">>), StrV(<<"a">>)>>,
                    <<IntLiteral(42), IntV(42)>>} :
            (/\ program = ArrayProgram(elem, size, IntLiteral(index), lit[1])
             /\ index < size)
                => LET default == CASE elem = "int" -> IntV(0)
                                    [] elem = "float" -> FloatV(0)
                                    [] elem = "bool" -> BoolV(FALSE)
                                    [] elem = "str" -> StrV(<<>>)
                   IN /\ "a" \in DOMAIN callStack[1].localVars
                      /\ callStack[1].localVars["a"] =
                             ArrayV([k \in 1..size |-> IF k = index + 1 THEN lit[2] ELSE default])

\* C10 as stated: EQ pops two values and pushes true exactly when both are
\* None, or both are numeric (Int or Float, in any mix) and equal after
\* widening Int to Float, or both are Bool or both are Str with equal values;
\* NE pushes the negation.
C10_EqWidensNumerics ==
    (LastOp \in {"EQ", "NE"} /\ Len(hist.evalStack) >= 2)
        => LET l == Operand(1)
               r == Operand(0)
               widen(v) == IF v.t = "INT" THEN v.n * FloatDen ELSE v.n
               equal == \/ l.t = "NONE" /\ r.t = "NONE"
                        \/ /\ l.t \in {"INT", "FLOAT"} /\ r.t \in {"INT", "FLOAT"}
                           /\ widen(l) = widen(r)
                        \/ l.t = "BOOL" /\ r.t = "BOOL" /\ l.b = r.b
                        \/ l.t = "STRING" /\ r.t = "STRING" /\ l.s = r.s
           IN evalStack = Append(Below(2), BoolV(IF LastOp = "EQ" THEN equal ELSE ~equal))

\* C10, amended: EQ pops two values and pushes true exactly when both are
\* None, or both have the same type among Int, Float, Bool and Str and equal
\* values; an Int and a Float are never equal; NE pushes the negation.
C10_EqSameTypeOnly ==
    (LastOp \in {"EQ", "NE"} /\ Len(hist.evalStack) >= 2)
        => LET l == Operand(1)
               r == Operand(0)
               equal == \/ l.t = "NONE" /\ r.t = "NONE"
                        \/ l.t = "INT" /\ r.t = "INT" /\ l.n = r.n
                        \/ l.t = "FLOAT" /\ r.t = "FLOAT" /\ l.n = r.n
                        \/ l.t = "BOOL" /\ r.t = "BOOL" /\ l.b = r.b
                        \/ l.t = "STRING" /\ r.t = "STRING" /\ l.s = r.s
           IN evalStack = Append(Below(2), BoolV(IF LastOp = "EQ" THEN equal ELSE ~equal))

\* EQ has found the Int 1 and the Float 1.0 and has pushed false
C10_Witness ==
    /\ LastOp = "EQ"
    /\ Len(hist.evalStack) >= 2
    /\ Operand(1) = IntV(1)
    /\ Operand(0) = FloatV(FloatDen)
    /\ evalStack = Append(Below(2), BoolV(FALSE))

RECURSIVE FormatExpected(_, _, _)
\* the raw string str with its brace groups replaced by the strings of
\* args[k], args[k + 1], ... and by nothing once the arguments run out; an
\* opening brace that is never closed ends the scan and is copied with the
\* rest of the string
FormatExpected(str, args, k) ==
    IF str = <<>> THEN <<>>
    ELSE IF Head(str) # "{" THEN <<Head(str)>> \o FormatExpected(Tail(str), args, k)
    ELSE IF \A i \in 1..Len(str) : str[i] # "}" THEN str
    ELSE LET close == CHOOSE i \in 1..Len(str) :
                          str[i] = "}" /\ \A j \in 1..(i - 1) : str[j] # "}"
         IN (IF k <= Len(args) THEN toString(args[k]) ELSE <<>>)
                \o FormatExpected(SubSeq(str, close + 1, Len(str)), args, k + 1)

\* C11: FORMAT str_idx, argc pops argc values and pushes one Str: the raw
\* string constants[str_idx] with its k-th brace group replaced by the string
\* of the k-th argument in push order, the groups beyond the argc-th replaced
\* by nothing, the text outside the groups copied, and an opening brace with
\* no closing brace copied together with the rest of the string.
C11_FormatSubstitutes ==
    (/\ LastOp = "FORMAT"
     /\ hist.instr.i1 >= 0 /\ hist.instr.i1 < Len(constants)
     /\ Len(hist.evalStack) >= hist.instr.i2)
        => LET argc == hist.instr.i2
               args == SubSeq(hist.evalStack, Len(hist.evalStack) - argc + 1,
                              Len(hist.evalStack))
           IN evalStack = Append(Below(argc),
                                 StrV(FormatExpected(constants[hist.instr.i1 + 1].s, args, 1)))

\* C12: during one compilation the constant pool never holds two entries of
\* the same type among Int, Float, Bool and Str with equal values;
\* addConstant(v) returns the index of the equal entry when there is one and
\* appends otherwise; values of different types get different indices; the
\* value stored at an index already returned never changes.
C12_ConstantPoolDedup ==
    LET pool == compiler.constants
        keyed(v) == v.t \in {"INT", "FLOAT", "BOOL", "STRING"}
        calls == 1..Len(returned)
    IN /\ \A i, j \in 1..Len(pool) : (i < j /\ keyed(pool[i])) => pool[i] # pool[j]
       /\ \A c \in calls :
              /\ returned[c].index >= 0 /\ returned[c].index < Len(pool)
              /\ pool[returned[c].index + 1] = returned[c].value
       /\ \A c, d \in calls :
              (keyed(returned[c].value) /\ returned[c].value = returned[d].value)
                  => returned[c].index = returned[d].index
       /\ \A c, d \in calls :
              returned[c].value # returned[d].value => returned[c].index # returned[d].index
       /\ Len(pool) = Cardinality({returned[c].value : c \in {d \in calls : keyed(returned[d].value)}})
                          + Cardinality({c \in calls : ~keyed(returned[c].value)})

\* Int 0, Str "0" and Int 0 again: the indices returned are 0, 1 and 0
C12_Witness ==
    /\ Len(returned) = 3
    /\ returned[1] = [value |-> IntV(0), index |-> 0]
    /\ returned[2] = [value |-> StrV(<<"0">>), index |-> 1]
    /\ returned[3] = [value |-> IntV(0), index |-> 0]
    /\ compiler.constants = <<IntV(0), StrV(<<"0">>)>>

\* C13: while SemanticAnalyzer::analyze runs, on any program, one with a
\* redeclared function included, the Environment holds at least one scope,
\* and it holds exactly one, the global scope, when analyze returns.
C13_ScopesBalanced ==
    /\ verdict \in {"pending", "passed", "failed"} => Len(sa.scopes) >= 1
    /\ verdict \in {"passed", "failed"} => Len(sa.scopes) = 1

\* analyze has returned false on a function declared twice inside a loop
\* body, where three scopes were open
C13_Witness ==
    /\ verdict = "failed"
    /\ "Failed to declare function '.f'" \in {sa.errors[i] : i \in 1..Len(sa.errors)}
    /\ program.kids[2].k = "WhileStatement"
    /\ Len(sa.scopes) = 1

\* the errors the last visit recorded
NewErrors == SubSeq(sa.errors, Len(visited.sa.errors) + 1, Len(sa.errors))

\* the last visit was of the statement f(args) with a bare name f
BareCallVisited ==
    /\ visited.item.kind = "accept"
    /\ visited.item.node.k = "ExpressionStatement"
    /\ visited.item.node.kids[1].k = "FunctionCall"
    /\ visited.item.node.kids[1].kids[1].k = "Identifier"

\* C14: a call whose callee is a bare identifier f resolves f as
\* "{currentModule}.f", then as "__builtins__.f", then as a plain name; when
\* one of them is declared the call records no error of its own, its
\* arguments are analysed and the type of the symbol found is pushed.  So
\* print(...), len(...) and range(...) with no module declaration record no
\* 'Undeclared function' error.
C14_BareCallResolves ==
    BareCallVisited =>
        LET call == visited.item.node.kids[1]
            sym == lookupIdentifier(visited.sa, call.kids[1].s)
        IN sym # NoSymbol =>
              sa = pushType(saAcceptArguments(visited.sa, call.kids, 2), sym.dataType)

\* some name occurs twice in the sequence
Twice(names) == \E i, j \in 1..Len(names) : i < j /\ names[i] = names[j]

\* the names the nodes of one kind in a list declare
NamesOf(kids, k) ==
    LET those == SelectSeq(kids, LAMBDA kid : kid.k = k)
    IN [i \in 1..Len(those) |-> those[i].s]

RECURSIVE DeclaresTwice(_)

\* the program text declares a name twice in one scope: two variables in
\* one statement list, two functions of one name, two parameters of one
\* function
DeclaresTwice(nd) ==
    \/ /\ nd.k \in {"Program", "Block"}
       /\ Twice(NamesOf(nd.kids, "Declaration")) \/ Twice(NamesOf(nd.kids, "Function"))
    \/ nd.k = "Function" /\ Twice(NamesOf(Tail(nd.kids), "Parameter"))
    \/ \E i \in 1..Len(nd.kids) : DeclaresTwice(nd.kids[i])

\* C15: when a program declares the same name twice in one scope (two
\* variables in one block, two functions of one name in one module, two
\* parameters of one function), analyze records an error and returns false.
C15_DuplicateDeclarationFails ==
    (verdict \in {"passed", "failed"} /\ DeclaresTwice(program)) =>
        verdict = "failed" /\ sa.errors # <<>>

RECURSIVE InnermostBinding(_, _, _)

\* the binding of name in the innermost of the scopes 1..i that has one
InnermostBinding(scopes, name, i) ==
    IF i = 0 THEN NoSymbol
    ELSE IF name \in DOMAIN scopes[i] THEN scopes[i][name]
    ELSE InnermostBinding(scopes, name, i - 1)

\* C16: Environment::declareVariable succeeds exactly when the innermost
\* scope does not bind the name (a binding in an outer scope does not block
\* it) and then binds it there alone; a failed declaration leaves every
\* scope unchanged; lookupSymbol returns the binding of the innermost scope
\* that binds the name, or nothing when no scope does.
C16_DeclareAndLookup ==
    /\ visited.item.kind = "declareVariable" =>
          LET pre == visited.sa.scopes
              name == visited.item.node.s
              bound == pre # <<>> /\ name \in DOMAIN pre[Len(pre)]
          IN /\ verdict = "true" <=> ~bound
             /\ bound => sa.scopes = pre
             /\ ~bound =>
                   /\ Len(sa.scopes) = IF pre = <<>> THEN 1 ELSE Len(pre)
                   /\ \A i \in 1..Len(pre) :
                         \A n \in DOMAIN pre[i] : n \in DOMAIN sa.scopes[i] /\ sa.scopes[i][n] = pre[i][n]
                   /\ \A i \in 1..Len(sa.scopes) :
                         DOMAIN sa.scopes[i] =
                             (IF i <= Len(pre) THEN DOMAIN pre[i] ELSE {})
                               \cup (IF i = Len(sa.scopes) THEN {name} ELSE {})
                   /\ sa.scopes[Len(sa.scopes)][name].dataType = visited.item.node.s2
                   /\ sa.scopes[Len(sa.scopes)][name].type = "VARIABLE"
    /\ verdict \in {"environment", "void", "true", "false"} =>
          \A n \in EnvironmentNames :
              lookupSymbol(sa.scopes, n) = InnermostBinding(sa.scopes, n, Len(sa.scopes))

\* x is declared in an inner scope though an outer scope binds it with
\* another type, and the lookup of x gives the inner binding
C16_Witness ==
    /\ visited.item.kind = "declareVariable"
    /\ verdict = "true"
    /\ Len(sa.scopes) = 3
    /\ "x" \in DOMAIN sa.scopes[1] /\ "x" \in DOMAIN sa.scopes[3]
    /\ sa.scopes[1]["x"].dataType # sa.scopes[3]["x"].dataType
    /\ lookupSymbol(sa.scopes, "x") = sa.scopes[3]["x"]

\* the last visit was of the statement  l op r
BinaryVisited ==
    /\ visited.item.kind = "accept"
    /\ visited.item.node.k = "ExpressionStatement"
    /\ visited.item.node.kids[1].k = "BinaryExpression"

\* the analyzer after the left operand of the statement last visited, and
\* after the right one
AfterLeft == saAccept(visited.sa, visited.item.node.kids[1].kids[1])

AfterRight == saAccept(popType(AfterLeft), visited.item.node.kids[1].kids[2])

\* the operator of the statement last visited recorded an error of its own
OperatorError == Len(sa.errors) > Len(AfterRight.errors)

Compatible(target, source) == target = source \/ (target = "FLOAT" /\ source = "INT")

\* C17: for + - * / % on numeric operands the analyzer's result is Float if
\* either operand is Float and Int otherwise, with no error; + with a Str
\* operand gives Str with no error; other operand types of an arithmetic
\* operator give an error; == != < <= > >= give Bool, with an error exactly
\* when neither operand type is compatible with the other; && and || give
\* Bool, with an error exactly when some operand is not Bool.
C17_BinaryResultTypes ==
    BinaryVisited =>
        LET op == visited.item.node.kids[1].s
            l == getCurrentType(AfterLeft)
            r == getCurrentType(AfterRight)
            numeric == {"INT", "FLOAT"}
            result == getCurrentType(sa)
        IN /\ (op \in ArithmeticOperators /\ l \in numeric /\ r \in numeric) =>
                 /\ result = IF l = "FLOAT" \/ r = "FLOAT" THEN "FLOAT" ELSE "INT"
                 /\ ~OperatorError
           /\ (op = "+" /\ (l = "STR" \/ r = "STR")) => (result = "STR" /\ ~OperatorError)
           /\ (/\ op \in ArithmeticOperators
               /\ ~(l \in numeric /\ r \in numeric)
               /\ ~(op = "+" /\ (l = "STR" \/ r = "STR"))) => OperatorError
           /\ op \in ComparisonOperators =>
                 /\ result = "BOOL"
                 /\ OperatorError <=> (~Compatible(l, r) /\ ~Compatible(r, l))
           /\ op \in LogicalOperators =>
                 /\ result = "BOOL"
                 /\ OperatorError <=> (l # "BOOL" \/ r # "BOOL")
           /\ Len(sa.typeStack) = Len(visited.sa.typeStack) + 1

\* 0.5 < "a" has been analysed: Bool, with the error of the comparison
C17_Witness ==
    /\ BinaryVisited
    /\ visited.item.node.kids[1].s = "<"
    /\ getCurrentType(AfterLeft) = "FLOAT"
    /\ getCurrentType(AfterRight) = "STR"
    /\ getCurrentType(sa) = "BOOL"
    /\ sa.errors = <<"Cannot compare float and str">>

\* the last visit was of a declaration with a declared type and an
\* initializer
InitializedVisited ==
    /\ visited.item.kind = "accept"
    /\ visited.item.node.k = "Declaration"
    /\ visited.item.node.kids[1].k = "Type"
    /\ visited.item.node.kids[2].k # "Nil"

\* the declared type T of the declaration last visited
DeclaredT == dataTypeFromAST(visited.item.node.kids[1].s)

\* the type S inferred for its initializer
InferredS == getCurrentType(saAccept(visited.sa, visited.item.node.kids[2]))

\* the visit recorded the mismatch of T and S
MismatchRecorded ==
    \E i \in 1..Len(NewErrors) :
        NewErrors[i] = "Type mismatch in variable '" \o visited.item.node.s
                          \o "' initialization: expected " \o dataTypeToString(DeclaredT)
                          \o ", got " \o dataTypeToString(InferredS)

\* S differs from T and is not an int given to a float
MismatchExpected ==
    InferredS # DeclaredT /\ ~(DeclaredT = "FLOAT" /\ InferredS = "INT")

\* C18 as stated: a declaration with declared type T and an initializer of
\* type S records the error 'expected T, got S', and analyze fails, exactly
\* when S differs from T and it is not the case that T is float and S is
\* int.
C18_MismatchExactly ==
    InitializedVisited =>
        /\ MismatchRecorded <=> MismatchExpected
        /\ MismatchRecorded => sa.hasError

\* C18 amended: the same for a declaration whose name the current scope
\* does not bind yet; a declaration of a name that it binds records
\* 'Failed to declare variable' and its initializer is not looked at.
C18_MismatchExactlyWhenDeclared ==
    /\ (InitializedVisited /\ canDeclareVariable(visited.sa.scopes, visited.item.node.s)) =>
          /\ MismatchRecorded <=> MismatchExpected
          /\ MismatchRecorded => sa.hasError
          /\ ~MismatchExpected => sa.errors = saAccept(visited.sa, visited.item.node.kids[2]).errors
    /\ (InitializedVisited /\ ~canDeclareVariable(visited.sa.scopes, visited.item.node.s)) =>
          NewErrors = <<"Failed to declare variable '" \o visited.item.node.s \o "'">>
    /\ (verdict = "passed") => sa.errors = <<>>

\* var x: int = "a" has been analysed and the mismatch is the one error
C18_Witness ==
    /\ InitializedVisited
    /\ DeclaredT = "INT"
    /\ InferredS = "STR"
    /\ sa.errors = <<"Type mismatch in variable 'x' initialization: expected int, got str">>

\* the bodies of loops that the items are inside of: one for each While or
\* For whose visit is under way
LoopsAround(items) ==
    Len(SelectSeq(items, LAMBDA it : it.kind \in {"endWhile", "endFor"}))

\* C19: a break records 'Break statement outside loop', and a continue
\* 'Continue statement outside loop', exactly when it is not nested inside
\* the body of any While or For; inside a loop body, at any block or if
\* depth, it records nothing; and the loop-depth counter is the number of
\* loops under way, so it is back to its previous value after each loop.
C19_BreakOutsideLoop ==
    /\ (visited.item.kind = "accept" /\ visited.item.node.k = "BreakStatement") =>
          NewErrors = IF LoopsAround(visited.todo) = 0
                      THEN <<"Break statement outside loop">> ELSE <<>>
    /\ (visited.item.kind = "accept" /\ visited.item.node.k = "ContinueStatement") =>
          NewErrors = IF LoopsAround(visited.todo) = 0
                      THEN <<"Continue statement outside loop">> ELSE <<>>
    /\ verdict = "pending" => sa.loopDepth = LoopsAround(todo)
    /\ verdict \in {"passed", "failed"} => sa.loopDepth = 0
    /\ visited.item.kind \in {"endWhile", "endFor"} =>
          sa.loopDepth = visited.sa.loopDepth - 1

\* a break in a block of an if in a while body has recorded nothing, and
\* the same program's loop is then left with the counter at 0
C19_Witness ==
    /\ visited.item.kind = "accept"
    /\ visited.item.node.k = "BreakStatement"
    /\ LoopsAround(visited.todo) = 1
    /\ Len(SelectSeq(visited.todo, LAMBDA it : it.kind = "endBlock")) >= 2
    /\ sa.loopDepth = 1
    /\ NewErrors = <<>>

\* the tokens from position i (from 1) on are a line  import m, up to the
\* end of the line or of the buffer, that starts a line after the token the
\* error was logged at
ImportLineAfterError(i) ==
    /\ i > builder.errorAt + 1
    /\ i + 1 <= Len(builder.tokens)
    /\ builder.tokens[i - 1].type = "END_OF_LINE"
    /\ builder.tokens[i] = Token("KEYWORD", "import")
    /\ builder.tokens[i + 1].type = "IDENTIFIER"
    /\ i + 2 <= Len(builder.tokens) => builder.tokens[i + 2].type = "END_OF_LINE"

ResultExpression == program.kids[1].kids[2]

\* an arithmetic operator between two Int literals, the right one not 0 when
\* the operator divides
IntArithmetic ==
    /\ program \in ExpressionPrograms
    /\ ResultExpression.s \in ArithmeticOperators
    /\ \A i \in 1..2 : ResultExpression.kids[i].n % FloatDen = 0
                          /\ ResultExpression.kids[i].k = "NumberLiteral"
    /\ ResultExpression.s \in {"/", "%"} => ResultExpression.kids[2].n # 0

\* the type the analyzer leaves on its type stack for the expression
InferredType ==
    getCurrentType(saAccept([newAnalyzer EXCEPT !.scopes = declareBuiltins(@)],
                            ResultExpression))

\* C29: the value the interpreter produces for l op r, op among + - * / %,
\* both operands Int and the divisor not 0, is an Int, the type the analyzer
\* infers for the expression
C29_IntArithmeticIsInt ==
    (executed # "no" /\ IntArithmetic) =>
        /\ InferredType = "INT"
        /\ interpreter.environments[1]["result"].t = "INT"

\* what the interpreter's print calls write in an execution of prog that the
\* model follows to its end: cout without the two lines of execute
Interpreted(prog) ==
    With(execute(newInterpreter, prog),
         LAMBDA r : [ended |-> r.result /\ r.I.fuel > 0,
                     printed |-> SubSeq(r.I.cout, 2, Len(r.I.cout) - 1)])

IsPrefix(p, q) == Len(p) <= Len(q) /\ SubSeq(q, 1, Len(p)) = p

\* C23: for a loop whose body holds break or continue, the virtual machine
\* executes the body statements the interpreter executes, in the same order:
\* what the machine has printed is at every moment a prefix of what the
\* interpreter prints, and all of it once run has returned
C23_SameBodyStatements ==
    (program \in LoopControlPrograms /\ Interpreted(program).ended) =>
        /\ IsPrefix(out, Interpreted(program).printed)
        /\ status = "returned" => out = Interpreted(program).printed

\* the addresses control can be at next after the instruction at address a
Successors(a) ==
    CASE code[a + 1].op \in {"RET", "HALT"} -> {}
      [] code[a + 1].op = "JMP" -> {code[a + 1].i1}
      [] code[a + 1].op \in {"JMP_FALSE", "JMP_TRUE"} -> {a + 1, code[a + 1].i1}
      [] OTHER -> {a + 1}

RECURSIVE PathsFrom(_, _, _)
\* the addresses on the paths from the addresses in frontier that stay among
\* the instructions lo .. hi - 1, and the first address of each path that
\* leaves them
PathsFrom(seen, frontier, extent) ==
    IF frontier \subseteq seen THEN seen
    ELSE PathsFrom(seen \cup frontier,
                   UNION {Successors(a) : a \in {f \in frontier \ seen :
                                                    f >= extent.entry /\ f < extent.end}},
                   extent)

\* the instructions visit(Function) emits for the i-th statement of the program
FunctionExtent(i) ==
    [entry |-> Len(acceptAll(SubSeq(program.kids, 1, i - 1), newCompiler).code),
     end |-> Len(acceptAll(SubSeq(program.kids, 1, i), newCompiler).code)]

\* C24: every path from the entry point of a function reaches a RET emitted
\* for that function before any instruction emitted after the function
C24_EveryPathReturns ==
    \A i \in 1..Len(program.kids) :
        program.kids[i].k = "Function" =>
            \A a \in PathsFrom({}, {FunctionExtent(i).entry}, FunctionExtent(i)) :
                a >= FunctionExtent(i).entry /\ a < FunctionExtent(i).end

\* the SUB that ends the code of -x has just been executed, on the stack that
\* the code of x, LOAD_CONST 0 and SWAP left: x on top of 0, x an Int or a Float
NegationExecuted ==
    /\ program \in UnaryPrograms
    /\ LastOp = "SUB"
    /\ Len(hist.evalStack) >= 2
    /\ isInt(Operand(0)) \/ isFloat(Operand(0))

\* C25: the code of -x, x an Int or a Float, leaves the eval stack one
\* element deeper than it found it, the value 0 - x on top
C25_NegationPushesDifference ==
    NegationExecuted =>
        evalStack = Append(Below(2), [Operand(0) EXCEPT !.n = 0 - @])

\* the range of the loop of a step-loop program: start, end, step
LoopRange == [i \in 1..3 |-> program.kids[1].kids[1].kids[i].n \div FloatDen]

\* the statements of the body of that loop after its print
InnerOf == SubSeq(program.kids[1].kids[2].kids, 2, Len(program.kids[1].kids[2].kids))

\* what the program prints when the body of the loop is executed k times
BodyTimes(k) == [i \in 1..k |-> "b"] \o <<"e">>

\* C26: a compiled for loop over range(a, b, s), s < 0, executes its body
\* zero times and control reaches the first instruction after the loop
C26_NegativeStepSkipsBody ==
    (program \in StepLoopPrograms /\ LoopRange[3] < 0) =>
        /\ IsPrefix(out, BodyTimes(0))
        /\ status = "returned" => out = BodyTimes(0)

\* ceil((b - a) / s) for a < b and s > 0, and 0 for a >= b
Iterations(a, b, step) == IF a < b THEN (b - a + step - 1) \div step ELSE 0

\* C27: a compiled for loop over range(a, b, s), s > 0, whose body does not
\* assign the loop variable executes its body ceil((b - a) / s) times when
\* a < b and zero times otherwise, also when the body holds another for loop
C27_BodyRunsCeilTimes ==
    (program \in StepLoopPrograms /\ LoopRange[3] > 0) =>
        /\ IsPrefix(out, BodyTimes(Iterations(LoopRange[1], LoopRange[2], LoopRange[3])))
        /\ status = "returned" =>
               out = BodyTimes(Iterations(LoopRange[1], LoopRange[2], LoopRange[3]))

\* the program declares a: T[n] and assigns a[i] = v with i >= n
IndexOutOfBounds ==
    /\ program \in ArrayPrograms
    /\ program.kids[2].kids[1].kids[1].kids[2].n >= program.kids[1].kids[1].kids[1].n

\* the STORE_VAR a that ends the code of a[i] = v has just been executed, a
\* bound to an array when it started
ElementStoreDone ==
    /\ LastOp = "STORE_VAR"
    /\ hist.instr.s = "a"
    /\ hist.callStack # <<>>
    /\ "a" \in DOMAIN hist.callStack[1].localVars
    /\ isArray(hist.callStack[1].localVars["a"])

\* C28: after a[i] = v with i out of the bounds of the array a, the error is
\* reported and a is bound to the array it was bound to, same length, same
\* elements
C28_ArrayKeptOnBadIndex ==
    (IndexOutOfBounds /\ ElementStoreDone) =>
        /\ "Array index out of bounds" \in {errs[i] : i \in 1..Len(errs)}
        /\ callStack[1].localVars["a"] = hist.callStack[1].localVars["a"]

\* build has returned and reported an error
ParseFailed == builder.built /\ builder.errorOccurred

C30_BuildTerminates == (mainFrame.at = "builder") ~> builder.built

====
